---- MODULE Spec2Model ----
(***************************************************************************)
(* Location profiler: the graph updater of location_profiler.py            *)
(* (LocationGraphUpdater: load_data, update_graph, prune_graph,            *)
(* persist_graph, run) and the snapshot readers of mcp_location_server.py. *)
(*                                                                         *)
(* Numbers.  The counters and scores are Python floats.  They are held     *)
(* here as integers in fixed point: a counter c is stored as c * Unit and  *)
(* a score s as s * 60 * Unit, so that decay_rate = DecayNum / DecayDen,   *)
(* the division by 30 and the two factors 0.5 are exact for every value an *)
(* entity takes in its first six touches.                                  *)
(*                                                                         *)
(* Time.  A date is a day number, day 0 being Monday 2025-07-21, so that   *)
(* day 2 is Wednesday 2025-07-23, the first date of generate_test_data.py. *)
(* A timestamp is [day, hour, minute]; a file date is the timestamp at     *)
(* 00:00.                                                                  *)
(***************************************************************************)
EXTENDS Integers, Sequences, FiniteSets, TLC

VARIABLES
    files,        \* the input directory: file date -> rows of that daily file
    pc,           \* position of the updater process
    graph,        \* self.graph: [nodes, edges, order, succ]
    last_update,  \* self.last_update: None or <<date>>
    meta,         \* self.meta["last_update"]: None or <<date>>
    daily_data,   \* run's local daily_data: sequence of [date, rows]
    bi,           \* index of the batch update_graph is processing
    ri,           \* index of the row update_graph is processing
    disk_graph,   \* content of graph.pkl
    disk_meta,    \* content of metadata.json
    out,          \* what run printed last
    loaded,       \* what the reader's last _load_graph call obtained
    reply,        \* what the last tool call of the server returned or raised
    clock,        \* the time, in the units of st_mtime
    mtime,        \* st_mtime of graph.pkl: None while the file is absent
    cache         \* graph_cache of fastapi_location_server.py: [mod_ts, graph]

vars == <<files, pc, graph, last_update, meta, daily_data, bi, ri,
          disk_graph, disk_meta, out, loaded, reply, clock, mtime, cache>>

----------------------------------------------------------------------------
(* Bounds of the model *)

\* rows in the input directory, over all its files
MaxRows == 4

Places == {"a", "b"}

\* The dates a daily file can carry: Wed, Thu, and a Tue and a Thu nine weeks on.
Days == {2, 3, 64, 66}

\* Rows of a file are in chronological order: row k starts at hour Hours[k].
\* The first stay of a day starts at midnight.
Hours == <<0, 14, 21>>
HourAt(k) == Hours[k]

\* rows of one daily file
MaxLen == Len(Hours)

----------------------------------------------------------------------------
(* Parameters of LocationGraphUpdater.__init__ (their defaults) *)

DecayNum == 19
DecayDen == 20
visit_threshold == 3
inactive_days_threshold == 60

\* Fixed point: a counter c is stored as c * Unit.
Unit == DecayDen ^ 5

None == << >>
Some(x) == <<x>>

Max(S) == CHOOSE x \in S : \A y \in S : y <= x
Min(S) == CHOOSE x \in S : \A y \in S : x <= y

\* sorted(...) of a set of integers
RECURSIVE SortedSeq(_)
SortedSeq(S) == IF S = {} THEN << >> ELSE <<Min(S)>> \o SortedSeq(S \ {Min(S)})

\* dict.get(key, default)
Get(d, key, default) == IF key \in DOMAIN d THEN d[key] ELSE default

----------------------------------------------------------------------------
(* datetime *)

FileDate(d) == [day |-> d, hour |-> 0, minute |-> 0]

\* the minutes from the start of day 0 to ts
Minutes(ts) == (ts.day * 24 + ts.hour) * 60 + ts.minute

\* (a - b).days: timedelta.days is the floor of the difference in days
DaysBetween(a, b) == (Minutes(a) - Minutes(b)) \div (24 * 60)

\* datetime.isoweekday(): 1 = Monday .. 7 = Sunday
IsoWeekday(ts) == (ts.day % 7) + 1

\* datetime.weekday(): 0 = Monday .. 6 = Sunday
Weekday(ts) == ts.day % 7

Digit(n) == <<"0", "1", "2", "3", "4", "5", "6", "7", "8", "9">>[n + 1]

\* str(n) of a natural number, as its sequence of characters
RECURSIVE Str(_)
Str(n) == IF n < 10 THEN <<Digit(n)>> ELSE Str(n \div 10) \o <<Digit(n % 10)>>

\* f"{ts.weekday()}_{ts.hour}"
BucketKey(ts) == Str(Weekday(ts)) \o <<"_">> \o Str(ts.hour)

----------------------------------------------------------------------------
(* networkx.DiGraph *)

\* nodes and edges carry the attribute dicts; order is the insertion order of
\* the nodes (the key order of G._node) and succ[n] the successors of n in the
\* insertion order of its outgoing edges (the key order of G._succ[n])
DiGraph == [nodes |-> << >>, edges |-> << >>, order |-> << >>, succ |-> << >>]

\* the attribute dict of a node that add_edge creates for a missing endpoint
NoAttrs == << >>

has_node(G, n) == n \in DOMAIN G.nodes
has_edge(G, u, v) == <<u, v>> \in DOMAIN G.edges

\* the elements of the sequence s that are in the set S, in the order of s
Within(s, S) == LET In(x) == x \in S IN SelectSeq(s, In)

\* G.add_node(n, **attrs) on a node that is absent
add_node(G, n, attrs) ==
    [nodes |-> (n :> attrs) @@ G.nodes,
     edges |-> G.edges,
     order |-> Append(G.order, n),
     succ  |-> (n :> << >>) @@ G.succ]

\* G.add_edge(u, v, **attrs) on an edge that is absent: missing endpoints are
\* added first, u before v, without attributes
add_edge(G, u, v, attrs) ==
    LET G1 == IF has_node(G, u) THEN G ELSE add_node(G, u, NoAttrs)
        G2 == IF has_node(G1, v) THEN G1 ELSE add_node(G1, v, NoAttrs)
    IN  [G2 EXCEPT !.edges = (<<u, v>> :> attrs) @@ @,
                   !.succ[u] = Append(@, v)]

Restrict(f, S) == [x \in S |-> f[x]]

\* as remove_nodes_from, the edges left as they are
remove_nodes_only(G, ns) ==
    [G EXCEPT !.nodes = Restrict(G.nodes, DOMAIN G.nodes \ ns),
              !.order = Within(G.order, DOMAIN G.nodes \ ns)]

\* G.remove_nodes_from(ns): every edge incident to a removed node goes with it
remove_nodes_from(G, ns) ==
    LET keep == DOMAIN G.nodes \ ns
    IN  [nodes |-> Restrict(G.nodes, keep),
         edges |-> Restrict(G.edges,
                     {e \in DOMAIN G.edges : e[1] \in keep /\ e[2] \in keep}),
         order |-> Within(G.order, keep),
         succ  |-> [n \in keep |-> Within(G.succ[n], keep)]]

\* G.remove_edges_from(es)
remove_edges_from(G, es) ==
    [G EXCEPT !.edges = Restrict(G.edges, DOMAIN G.edges \ es),
              !.succ = [n \in DOMAIN G.succ |->
                           Within(G.succ[n], {v \in DOMAIN G.nodes : <<n, v>> \notin es})]]

\* G.out_edges(u): the edges out of u, in the order of G._succ[u]
out_edges(G, u) == [k \in 1..Len(G.succ[u]) |-> <<u, G.succ[u][k]>>]

\* the out-edges of the nodes ns, node after node
RECURSIVE EdgesFrom(_, _)
EdgesFrom(G, ns) ==
    IF ns = << >> THEN << >> ELSE out_edges(G, Head(ns)) \o EdgesFrom(G, Tail(ns))

\* G.edges: the edges in the order networkx iterates over them
edges(G) == EdgesFrom(G, G.order)

----------------------------------------------------------------------------
(* datetime.isoformat / datetime.fromisoformat *)

TwoDigits(n) == <<Digit(n \div 10), Digit(n % 10)>>

\* ts.isoformat(): "<date>T<hh>:<mm>", as its sequence of characters
IsoFormat(ts) ==
    Str(ts.day) \o <<"T">> \o TwoDigits(ts.hour) \o <<":">> \o TwoDigits(ts.minute)

DigitValue(c) == CHOOSE n \in 0..9 : Digit(n) = c

\* int(s) of a sequence of digits
RECURSIVE ParseInt(_)
ParseInt(s) ==
    IF s = << >> THEN 0
    ELSE 10 * ParseInt(SubSeq(s, 1, Len(s) - 1)) + DigitValue(s[Len(s)])

\* datetime.fromisoformat(s)
FromIsoFormat(s) ==
    LET t == CHOOSE k \in 1..Len(s) : s[k] = "T"
        c == CHOOSE k \in 1..Len(s) : s[k] = ":"
    IN  [day    |-> ParseInt(SubSeq(s, 1, t - 1)),
         hour   |-> ParseInt(SubSeq(s, t + 1, c - 1)),
         minute |-> ParseInt(SubSeq(s, c + 1, Len(s)))]

\* a < b on datetimes
Earlier(a, b) == Minutes(a) < Minutes(b)

----------------------------------------------------------------------------
(* Files on disk: graph.pkl and metadata.json *)

AbsentFile == [kind |-> "absent", data |-> None]
\* open(path, "w") has truncated the file and nothing is written yet
EmptyFile == [kind |-> "empty", data |-> None]
\* a first part of the dump is written, the rest is not
PartialFile == [kind |-> "partial", data |-> None]
Complete(x) == [kind |-> "complete", data |-> x]

----------------------------------------------------------------------------
(* update_graph: one visit, one transition *)

One == Unit

\* x *= self.decay_rate
Decay(c) == (c * DecayNum) \div DecayDen

\* as DecayAndCount, the increment before the decay
CountAndDecay(c) == Decay(c + One)

\* x *= self.decay_rate ; x += 1
DecayAndCount(c) == Decay(c) + One

\* max(1, (file_date - last).days) ; 0.5 * (counter / 30) + 0.5 * (1 / days_since),
\* stored as score * 60 * Unit
Score(counter, file_date, last) ==
    LET days_since == Max({1, DaysBetween(file_date, last)})
    IN  counter + (30 * Unit) \div days_since

NewNode == [visits_30d |-> 0, visits_365d |-> 0, last_visit_ts |-> None,
            score |-> 0, active |-> TRUE]

NewEdge == [transitions_30d |-> 0, transitions_365d |-> 0,
            last_transition_ts |-> None, time_buckets |-> << >>,
            score |-> 0, active |-> TRUE]

\* the node of a visit exists before it is updated
EnsureNode(G, place_id) ==
    IF has_node(G, place_id) THEN G ELSE add_node(G, place_id, NewNode)

\* as VisitedNode, the score computed before the counter is updated
VisitedNodeStaleScore(node, start, file_date) ==
    [visits_30d    |-> DecayAndCount(node.visits_30d),
     visits_365d   |-> DecayAndCount(node.visits_365d),
     last_visit_ts |-> Some(start),
     score         |-> Score(node.visits_30d, file_date, start),
     active        |-> TRUE]

\* as VisitedNode, the active flag left as it is
VisitedNodeFlagKept(node, start, file_date) ==
    LET v30 == DecayAndCount(node.visits_30d)
    IN  [visits_30d    |-> v30,
         visits_365d   |-> DecayAndCount(node.visits_365d),
         last_visit_ts |-> Some(start),
         score         |-> Score(v30, file_date, start),
         active        |-> node.active]

\* the attributes of a node after one visit
VisitedNode(node, start, file_date) ==
    LET v30 == DecayAndCount(node.visits_30d)
    IN  [visits_30d    |-> v30,
         visits_365d   |-> DecayAndCount(node.visits_365d),
         last_visit_ts |-> Some(start),
         score         |-> Score(v30, file_date, start),
         active        |-> TRUE]

\* as Visit, with the counters of every other node decayed as well
VisitDecayAll(G, place_id, start, file_date) ==
    LET G1 == EnsureNode(G, place_id)
    IN  [G1 EXCEPT !.nodes =
            [n \in DOMAIN G1.nodes |->
                IF n = place_id THEN VisitedNode(G1.nodes[n], start, file_date)
                ELSE [G1.nodes[n] EXCEPT !.visits_30d = Decay(@),
                                         !.visits_365d = Decay(@)]]]

\* body of "for place_id, start, end in staypoints"
Visit(G, place_id, start, file_date) ==
    LET G1 == EnsureNode(G, place_id)
    IN  [G1 EXCEPT !.nodes[place_id] = VisitedNode(@, start, file_date)]

\* as CountBucket, the count of the bucket set to 1
CountBucketOnce(buckets, bucket) ==
    (bucket :> 1) @@ buckets

\* edge["time_buckets"][bucket] = edge["time_buckets"].get(bucket, 0) + 1
CountBucket(buckets, bucket) ==
    (bucket :> Get(buckets, bucket, 0) + 1) @@ buckets

\* the edge of a transition exists before it is updated
EnsureEdge(G, src, dst) ==
    IF has_edge(G, src, dst) THEN G ELSE add_edge(G, src, dst, NewEdge)

\* as TraversedEdge, the long-window counter counted without its decay
TraversedEdgeLongKept(edge, ts, file_date) ==
    LET t30 == DecayAndCount(edge.transitions_30d)
    IN  [transitions_30d    |-> t30,
         transitions_365d   |-> edge.transitions_365d + One,
         last_transition_ts |-> Some(ts),
         time_buckets       |-> CountBucket(edge.time_buckets, BucketKey(ts)),
         score              |-> Score(t30, file_date, ts),
         active             |-> TRUE]

\* the attributes of an edge after one transition
TraversedEdge(edge, ts, file_date) ==
    LET t30 == DecayAndCount(edge.transitions_30d)
    IN  [transitions_30d    |-> t30,
         transitions_365d   |-> DecayAndCount(edge.transitions_365d),
         last_transition_ts |-> Some(ts),
         time_buckets       |-> CountBucket(edge.time_buckets, BucketKey(ts)),
         score              |-> Score(t30, file_date, ts),
         active             |-> TRUE]

\* body of "for i in range(1, len(staypoints))"
Transition(G, src, dst, ts, file_date) ==
    LET G1 == EnsureEdge(G, src, dst)
    IN  [G1 EXCEPT !.edges[<<src, dst>>] = TraversedEdge(@, ts, file_date)]

----------------------------------------------------------------------------
(* load_data *)

\* as IsNew, with >= for >
IsNewOrSame(file_date, watermark) ==
    IF watermark = None THEN TRUE ELSE ~Earlier(file_date, watermark[1])

\* self.last_update is None or file_date > self.last_update
IsNew(file_date, watermark) ==
    IF watermark = None THEN TRUE ELSE Earlier(watermark[1], file_date)

\* one csv row as the tuple (place_id, start, end); end is never read
ParseRow(row) == [place_id |-> row.place_id, start |-> FromIsoFormat(row.start_iso)]

\* as ParseRows, the rows taken from the last to the first
ParseRowsReversed(rows) == [k \in 1..Len(rows) |-> ParseRow(rows[Len(rows) + 1 - k])]

\* the rows of one file, in file order
ParseRows(rows) == [k \in 1..Len(rows) |-> ParseRow(rows[k])]

\* the new files in ascending order of their names, each with its rows
RECURSIVE ReadFiles(_, _)
ReadFiles(dir, dates) ==
    IF dates = << >> THEN << >>
    ELSE <<[date |-> FileDate(Head(dates)), rows |-> ParseRows(dir[Head(dates)])]>>
         \o ReadFiles(dir, Tail(dates))

\* sorted(...) of a set of integers, with reverse=True
RECURSIVE SortedDescending(_)
SortedDescending(S) ==
    IF S = {} THEN << >> ELSE <<Max(S)>> \o SortedDescending(S \ {Max(S)})

\* as load_data, the files taken in descending order of their names
load_data_descending(dir, watermark) ==
    ReadFiles(dir, SortedDescending({d \in DOMAIN dir : IsNew(FileDate(d), watermark)}))

load_data(dir, watermark) ==
    ReadFiles(dir, SortedSeq({d \in DOMAIN dir : IsNew(FileDate(d), watermark)}))

\* A file of the input directory is named by the day number its date part
\* stands for, or by NotADate when its date part is no date
\* ("backup_staypoints.csv").
NotADate == 0 - 1

\* datetime.strptime(date_part, "%Y%m%d") returns: it raises ValueError otherwise
strptime_ok(name) == name # NotADate

IsDigits(s) == s # << >> /\ \A k \in 1..Len(s) : \E n \in 0..9 : s[k] = Digit(n)

\* datetime.fromisoformat(s) returns: it raises ValueError otherwise
fromisoformat_ok(s) ==
    \E t \in 1..Len(s) :
        /\ s[t] = "T"
        /\ IsDigits(SubSeq(s, 1, t - 1))
        /\ Len(s) = t + 5
        /\ IsDigits(SubSeq(s, t + 1, t + 2))
        /\ s[t + 3] = ":"
        /\ IsDigits(SubSeq(s, t + 4, t + 5))

\* every row of the file parses
RowsParse(rows) == \A k \in 1..Len(rows) : fromisoformat_ok(rows[k].start_iso)

\* load_data raises: strptime runs on the name of every file of the
\* directory, fromisoformat on the rows of the new files only
load_data_raises(dir, watermark) ==
    \/ \E name \in DOMAIN dir : ~strptime_ok(name)
    \/ \E d \in DOMAIN dir : IsNew(FileDate(d), watermark) /\ ~RowsParse(dir[d])

----------------------------------------------------------------------------
(* prune_graph *)

\* as Stale, with "or" for "and"
StaleEither(watermark, last, counter) ==
    \/ DaysBetween(watermark, last) > inactive_days_threshold
    \/ counter < visit_threshold * Unit

\* days_since > self.inactive_days_threshold and counter < self.visit_threshold
Stale(watermark, last, counter) ==
    /\ DaysBetween(watermark, last) > inactive_days_threshold
    /\ counter < visit_threshold * Unit

\* as MarkNode, the score of a node marked inactive reset as well
MarkNodeAndReset(data, watermark) ==
    LET last == Get(data, "last_visit_ts", None)
    IN  IF last # None /\ Stale(watermark, last[1], data.visits_30d)
        THEN [data EXCEPT !.active = FALSE, !.score = 0]
        ELSE data

\* as MarkNode, a node marked inactive for its age alone
MarkNodeByAge(data, watermark) ==
    LET last == Get(data, "last_visit_ts", None)
    IN  IF last # None /\ DaysBetween(watermark, last[1]) > inactive_days_threshold
        THEN [data EXCEPT !.active = FALSE]
        ELSE data

\* the first loop of prune_graph, on one node
MarkNode(data, watermark) ==
    LET last == Get(data, "last_visit_ts", None)
    IN  IF last # None /\ Stale(watermark, last[1], data.visits_30d)
        THEN [data EXCEPT !.active = FALSE]
        ELSE data

\* the second loop of prune_graph, on one edge
MarkEdge(data, watermark) ==
    LET last == Get(data, "last_transition_ts", None)
    IN  IF last # None /\ Stale(watermark, last[1], data.transitions_30d)
        THEN [data EXCEPT !.active = FALSE]
        ELSE data

\* "Mark inactive nodes and edges"
MarkInactive(G, watermark) ==
    [G EXCEPT !.nodes = [n \in DOMAIN G.nodes |-> MarkNode(G.nodes[n], watermark)],
              !.edges = [e \in DOMAIN G.edges |-> MarkEdge(G.edges[e], watermark)]]

\* [n for n, d in self.graph.nodes(data=True) if not d.get('active')]
InactiveNodes(G) == {n \in DOMAIN G.nodes : ~Get(G.nodes[n], "active", FALSE)}

\* [(u, v) for u, v, d in self.graph.edges(data=True) if not d.get('active')]
InactiveEdges(G) == {e \in DOMAIN G.edges : ~Get(G.edges[e], "active", FALSE)}

\* as RemoveInactive, without the removal of the inactive edges
RemoveInactiveNodes(G) == remove_nodes_from(G, InactiveNodes(G))

\* "If prune flag, physically remove inactive"
RemoveInactive(G) ==
    LET G1 == remove_nodes_from(G, InactiveNodes(G))
    IN  remove_edges_from(G1, InactiveEdges(G1))

----------------------------------------------------------------------------
(* Storage: _init_storage, load_graph, load_metadata *)

\* _init_storage: a missing file is created with its empty content
init_storage(file, empty) == IF file.kind = "absent" THEN Complete(empty) ELSE file

\* st_mtime of graph.pkl after a step that leaves it as after: the time of the
\* step when the step has written the file
Written(before, after) == IF after = before THEN mtime ELSE Some(clock)

\* load_graph: an empty or undecodable graph.pkl gives an empty graph
load_graph(file) == IF file.kind = "complete" THEN file.data ELSE DiGraph

\* json.dump({"last_update": ...}): None, or the iso string
MetaOf(watermark) == IF watermark = None THEN None ELSE Some(IsoFormat(watermark[1]))

\* datetime.fromisoformat(last) if last else None
WatermarkOf(m) == IF m = None THEN None ELSE Some(FromIsoFormat(m[1]))

----------------------------------------------------------------------------
(* The input directory *)

\* the rows of a daily file dated d that visits the places ps in this order
RowsOf(d, ps) ==
    [k \in 1..Len(ps) |->
        [place_id |-> ps[k], start_iso |-> IsoFormat([day |-> d, hour |-> HourAt(k), minute |-> 0])]]

\* the number of rows of the files dated in S
RECURSIVE RowCount(_, _)
RowCount(dir, S) ==
    IF S = {} THEN 0
    ELSE LET d == CHOOSE x \in S : TRUE
         IN  Len(dir[d]) + RowCount(dir, S \ {d})

TotalRows(dir) == RowCount(dir, DOMAIN dir)

PlaceSeqs == UNION {[1..n -> Places] : n \in 0..MaxLen}

\* a new daily file appears in the input directory
AddFile(d, ps) ==
    /\ pc = "exited"
    /\ d \notin DOMAIN files
    /\ TotalRows(files) + Len(ps) <= MaxRows
    /\ files' = (d :> RowsOf(d, ps)) @@ files
    /\ UNCHANGED <<pc, graph, last_update, meta, daily_data, bi, ri,
                   disk_graph, disk_meta, out, loaded, reply, clock, mtime, cache>>

\* the rows of RowsOf(d, ps), the start of the last one left empty
BadRowsOf(d, ps) ==
    [k \in 1..Len(ps) |->
        IF k = Len(ps) THEN [place_id |-> ps[k], start_iso |-> << >>]
        ELSE RowsOf(d, ps)[k]]

\* a daily file with a malformed row, or a file whose name holds no date,
\* appears in the input directory
AddBadFile(name, ps) ==
    /\ pc = "exited"
    /\ name \notin DOMAIN files
    /\ Len(ps) >= 1
    /\ TotalRows(files) + Len(ps) <= MaxRows
    /\ files' = (name :> IF strptime_ok(name) THEN BadRowsOf(name, ps)
                         ELSE RowsOf(0, ps)) @@ files
    /\ UNCHANGED <<pc, graph, last_update, meta, daily_data, bi, ri,
                   disk_graph, disk_meta, out, loaded, reply, clock, mtime, cache>>

----------------------------------------------------------------------------
(* The updater process: LocationGraphUpdater(...) and run(args) *)

NoLocals == /\ daily_data' = << >>
            /\ bi' = 0
            /\ ri' = 0

\* __init__: _init_storage, load_graph, load_metadata
Construct ==
    /\ pc = "exited"
    /\ LET g == init_storage(disk_graph, DiGraph)
           m == init_storage(disk_meta, None)
       IN  /\ m.kind = "complete"
           /\ disk_graph' = g
           /\ disk_meta' = m
           /\ graph' = load_graph(g)
           /\ meta' = m.data
           /\ last_update' = WatermarkOf(m.data)
    /\ mtime' = Written(disk_graph, init_storage(disk_graph, DiGraph))
    /\ pc' = "ready"
    /\ UNCHANGED <<files, daily_data, bi, ri, out, loaded, reply, clock, cache>>

\* where update_graph stands when it enters the batch with these rows
BatchStart(rows) == IF Len(rows) >= 1 THEN <<"visits", 1>> ELSE <<"batch_end", 0>>

\* where it stands after the visit of row k
AfterVisit(rows, k) ==
    IF k < Len(rows) THEN <<"visits", k + 1>>
    ELSE IF Len(rows) >= 2 THEN <<"transitions", 2>>
    ELSE <<"batch_end", 0>>

\* where it stands after the transition into row k
AfterTransition(rows, k) ==
    IF k < Len(rows) THEN <<"transitions", k + 1>> ELSE <<"batch_end", 0>>

\* run: daily_data = self.load_data(); nothing new: print and return
RunLoad ==
    /\ pc = "ready"
    /\ ~load_data_raises(files, last_update)
    /\ LET dd == load_data(files, last_update)
       IN  IF dd = << >>
           THEN /\ out' = [msg |-> "No new data to process.", n |-> 0]
                /\ pc' = "exited"
                /\ NoLocals
           ELSE /\ daily_data' = dd
                /\ bi' = 1
                /\ pc' = BatchStart(dd[1].rows)[1]
                /\ ri' = BatchStart(dd[1].rows)[2]
                /\ out' = out
    /\ UNCHANGED <<files, graph, last_update, meta, disk_graph, disk_meta, loaded, reply,
                   clock, mtime, cache>>

\* run: self.load_data() raises ValueError and the process ends on it
RunLoadFails ==
    /\ pc = "ready"
    /\ load_data_raises(files, last_update)
    /\ out' = [msg |-> "ValueError", n |-> 0]
    /\ pc' = "exited"
    /\ NoLocals
    /\ UNCHANGED <<files, graph, last_update, meta, disk_graph, disk_meta,
                   loaded, reply, clock, mtime, cache>>

\* update_graph: one iteration of the loop over the visits of a batch
VisitStep ==
    /\ pc = "visits"
    /\ LET batch == daily_data[bi]
           row == batch.rows[ri]
       IN  /\ graph' = Visit(graph, row.place_id, row.start, batch.date)
           /\ pc' = AfterVisit(batch.rows, ri)[1]
           /\ ri' = AfterVisit(batch.rows, ri)[2]
    /\ UNCHANGED <<files, last_update, meta, daily_data, bi,
                   disk_graph, disk_meta, out, loaded, reply, clock, mtime, cache>>

\* update_graph: one iteration of the loop over the transitions of a batch
TransitionStep ==
    /\ pc = "transitions"
    /\ LET batch == daily_data[bi]
           src == batch.rows[ri - 1].place_id
           dst == batch.rows[ri].place_id
           ts == batch.rows[ri].start
       IN  /\ graph' = Transition(graph, src, dst, ts, batch.date)
           /\ pc' = AfterTransition(batch.rows, ri)[1]
           /\ ri' = AfterTransition(batch.rows, ri)[2]
    /\ UNCHANGED <<files, last_update, meta, daily_data, bi,
                   disk_graph, disk_meta, out, loaded, reply, clock, mtime, cache>>

\* update_graph: self.last_update = file_date, then the next batch
EndBatch ==
    /\ pc = "batch_end"
    /\ last_update' = Some(daily_data[bi].date)
    /\ IF bi < Len(daily_data)
       THEN /\ bi' = bi + 1
            /\ pc' = BatchStart(daily_data[bi + 1].rows)[1]
            /\ ri' = BatchStart(daily_data[bi + 1].rows)[2]
       ELSE /\ bi' = bi
            /\ pc' = "update_meta"
            /\ ri' = 0
    /\ UNCHANGED <<files, graph, meta, daily_data, disk_graph, disk_meta, out, loaded, reply,
                   clock, mtime, cache>>

\* update_graph: self.meta["last_update"] = self.last_update.isoformat()
UpdateMeta ==
    /\ pc = "update_meta"
    /\ meta' = MetaOf(last_update)
    /\ pc' = "prune"
    /\ UNCHANGED <<files, graph, last_update, daily_data, bi, ri,
                   disk_graph, disk_meta, out, loaded, reply, clock, mtime, cache>>

\* prune_graph(prune): the two marking loops
PruneMark(prune) ==
    /\ pc = "prune"
    /\ graph' = MarkInactive(graph, last_update[1])
    /\ pc' = IF prune THEN "remove" ELSE "persist"
    /\ UNCHANGED <<files, last_update, meta, daily_data, bi, ri,
                   disk_graph, disk_meta, out, loaded, reply, clock, mtime, cache>>

\* prune_graph(prune = True): the removal of what is inactive
PruneRemove ==
    /\ pc = "remove"
    /\ graph' = RemoveInactive(graph)
    /\ pc' = "persist"
    /\ UNCHANGED <<files, last_update, meta, daily_data, bi, ri,
                   disk_graph, disk_meta, out, loaded, reply, clock, mtime, cache>>

\* persist_graph: open(self.graph_path, 'wb') truncates graph.pkl
PersistOpenGraph ==
    /\ pc = "persist"
    /\ disk_graph' = EmptyFile
    /\ mtime' = Some(clock)
    /\ pc' = "dump_graph"
    /\ UNCHANGED <<files, graph, last_update, meta, daily_data, bi, ri,
                   disk_meta, out, loaded, reply, clock, cache>>

\* persist_graph: pickle.dump has flushed a first part of the pickle
PersistFlushGraph ==
    /\ pc = "dump_graph"
    /\ disk_graph = EmptyFile
    /\ disk_graph' = PartialFile
    /\ mtime' = Some(clock)
    /\ UNCHANGED <<files, pc, graph, last_update, meta, daily_data, bi, ri,
                   disk_meta, out, loaded, reply, clock, cache>>

\* persist_graph: the pickle is written in full and graph.pkl is closed
PersistDumpGraph ==
    /\ pc = "dump_graph"
    /\ disk_graph' = Complete(graph)
    /\ mtime' = Some(clock)
    /\ pc' = "open_meta"
    /\ UNCHANGED <<files, graph, last_update, meta, daily_data, bi, ri,
                   disk_meta, out, loaded, reply, clock, cache>>

\* persist_graph: open(self.meta_path, "w") truncates metadata.json
PersistOpenMeta ==
    /\ pc = "open_meta"
    /\ disk_meta' = EmptyFile
    /\ pc' = "dump_meta"
    /\ UNCHANGED <<files, graph, last_update, meta, daily_data, bi, ri,
                   disk_graph, out, loaded, reply, clock, mtime, cache>>

\* persist_graph: json.dump(self.meta, f) and close; run prints and returns
PersistDumpMeta ==
    /\ pc = "dump_meta"
    /\ disk_meta' = Complete(meta)
    /\ out' = [msg |-> "Graph updated", n |-> Len(daily_data)]
    /\ pc' = "exited"
    /\ NoLocals
    /\ UNCHANGED <<files, graph, last_update, meta, disk_graph, loaded, reply, clock, mtime, cache>>

NotLoaded == [kind |-> "none", data |-> None]

\* GraphCache.__init__: self._mod_ts = None, self._graph = None
GraphCache == [mod_ts |-> None, graph |-> None]

\* no tool call so far
NoReply == [tool |-> "", args |-> << >>, kind |-> "none", value |-> << >>]

Init ==
    /\ files = << >>
    /\ pc = "exited"
    /\ graph = DiGraph
    /\ last_update = None
    /\ meta = None
    /\ daily_data = << >>
    /\ bi = 0
    /\ ri = 0
    /\ disk_graph = AbsentFile
    /\ disk_meta = AbsentFile
    /\ out = [msg |-> "", n |-> 0]
    /\ loaded = NotLoaded
    /\ reply = NoReply
    /\ clock = 0
    /\ mtime = None
    /\ cache = GraphCache

Updater ==
    \/ Construct
    \/ RunLoad
    \/ VisitStep
    \/ TransitionStep
    \/ EndBatch
    \/ UpdateMeta
    \/ \E prune \in BOOLEAN : PruneMark(prune)
    \/ PruneRemove
    \/ PersistOpenGraph
    \/ PersistFlushGraph
    \/ PersistDumpGraph
    \/ PersistOpenMeta
    \/ PersistDumpMeta

Next ==
    \/ \E d \in Days, ps \in PlaceSeqs : AddFile(d, ps)
    \/ Updater

Spec == Init /\ [][Next]_vars

----------------------------------------------------------------------------
(* The reader: _load_graph of mcp_location_server.py, run by every tool call *)

\* what open + pickle.load give on the file as it is now
ReadSnapshot(file) ==
    IF file.kind = "absent" THEN [kind |-> "FileNotFoundError", data |-> None]
    ELSE IF file.kind = "complete" THEN [kind |-> "graph", data |-> file.data]
    ELSE IF file.kind = "empty" THEN [kind |-> "EOFError", data |-> None]
    ELSE [kind |-> "UnpicklingError", data |-> None]

\* a tool call loads the snapshot
ReaderLoad ==
    /\ loaded' = ReadSnapshot(disk_graph)
    /\ UNCHANGED <<files, pc, graph, last_update, meta, daily_data, bi, ri,
                   disk_graph, disk_meta, out, reply, clock, mtime, cache>>

\* the daily files of the writer that runs beside a reader
RWPlaceSeqs == {<<"a", "b">>, <<"b">>}

\* One writer and one reader on the same graph.pkl.
NextRW ==
    \/ \E d \in Days, ps \in RWPlaceSeqs : AddFile(d, ps)
    \/ Updater
    \/ ReaderLoad

SpecRW == Init /\ [][NextRW]_vars

----------------------------------------------------------------------------
(* The tools of mcp_location_server.py, as functions of the loaded graph *)

\* the place identifiers in the order of Python's string comparison
Alphabetical ==
    <<"a", "a->b", "a:b", "b", "c", "loc_coffee", "loc_gym", "loc_home", "loc_park", "loc_work">>

Rank(p) == CHOOSE k \in 1..Len(Alphabetical) : Alphabetical[k] = p

\* sorted(S) of a set of place identifiers
RECURSIVE sorted_places(_)
sorted_places(S) ==
    IF S = {} THEN << >>
    ELSE LET p == CHOOSE x \in S : \A y \in S : Rank(x) <= Rank(y)
         IN  <<p>> \o sorted_places(S \ {p})

\* sorted(G.edges): by source, then by destination
sorted_edges(G) ==
    LET Out(u) == sorted_places({e[2] : e \in {f \in DOMAIN G.edges : f[1] = u}})
        RECURSIVE From(_)
        From(us) == IF us = << >> THEN << >>
                    ELSE [k \in 1..Len(Out(Head(us))) |-> <<Head(us), Out(Head(us))[k]>>]
                         \o From(Tail(us))
    IN  From(sorted_places({e[1] : e \in DOMAIN G.edges}))

\* the place of x in a list sorted by key with reverse=False
RECURSIVE InsertAscending(_, _)
InsertAscending(x, t) ==
    IF t = << >> THEN <<x>>
    ELSE IF Head(t)[2] <= x[2] THEN <<Head(t)>> \o InsertAscending(x, Tail(t))
    ELSE <<x>> \o t

\* as sorted_by_count, with reverse=False
RECURSIVE sorted_ascending(_)
sorted_ascending(s) ==
    IF s = << >> THEN << >>
    ELSE InsertAscending(s[Len(s)], sorted_ascending(SubSeq(s, 1, Len(s) - 1)))

\* the place of x in a list sorted by key with reverse=True: behind the
\* elements of the same key, which came before it
RECURSIVE InsertDescending(_, _)
InsertDescending(x, t) ==
    IF t = << >> THEN <<x>>
    ELSE IF Head(t)[2] >= x[2] THEN <<Head(t)>> \o InsertDescending(x, Tail(t))
    ELSE <<x>> \o t

\* sorted(s, key=lambda x: x[1], reverse=True) of a list of pairs; the sort is
\* stable: pairs of equal key stay in the order they have in s
RECURSIVE sorted_by_count(_)
sorted_by_count(s) ==
    IF s = << >> THEN << >>
    ELSE InsertDescending(s[Len(s)], sorted_by_count(SubSeq(s, 1, Len(s) - 1)))

\* s[:n], for n >= 0
Take(s, n) == SubSeq(s, 1, Min({n, Len(s)}))

Ok(x) == [kind |-> "ok", value |-> x]
Raise(exception, message) == [kind |-> exception, value |-> message]

\* bucket.startswith(prefix), uri.startswith(prefix)
StartsWith(bucket, prefix) ==
    Len(bucket) >= Len(prefix) /\ SubSeq(bucket, 1, Len(prefix)) = prefix

\* A place identifier is a string of Python; where a tool puts it into a uri
\* or takes it out of one, the string is the sequence of its characters.
Spelling ==
    [a |-> <<"a">>, b |-> <<"b">>, c |-> <<"c">>,
     loc_coffee |-> <<"l", "o", "c", "_", "c", "o", "f", "f", "e", "e">>,
     loc_gym    |-> <<"l", "o", "c", "_", "g", "y", "m">>,
     loc_home   |-> <<"l", "o", "c", "_", "h", "o", "m", "e">>,
     loc_park   |-> <<"l", "o", "c", "_", "p", "a", "r", "k">>,
     loc_work   |-> <<"l", "o", "c", "_", "w", "o", "r", "k">>]
       @@ ("a->b" :> <<"a", "-", ">", "b">>)
       @@ ("a:b" :> <<"a", ":", "b">>)

\* the characters of the place identifier p
Text(p) == Spelling[p]

\* a string that is no place identifier of a daily file
Unnamed == ""

\* the place identifier with these characters
Named(chars) ==
    IF \E p \in DOMAIN Spelling : Spelling[p] = chars
    THEN CHOOSE p \in DOMAIN Spelling : Spelling[p] = chars
    ELSE Unnamed

\* the literals of the uris
LocationPrefix == <<"l", "o", "c", "a", "t", "i", "o", "n", ":">>
TransitionPrefix == <<"t", "r", "a", "n", "s", "i", "t", "i", "o", "n", ":">>
Colon == <<":">>
Arrow == <<"-", ">">>

\* f"location:{n}"
LocationUri(n) == LocationPrefix \o Text(n)

\* f"transition:{u}->{v}"
TransitionUri(u, v) == TransitionPrefix \o Text(u) \o Arrow \o Text(v)

\* s.find(sep) + 1: where sep first occurs in s, 0 when it does not
Find(s, sep) ==
    LET at == {k \in 1..(Len(s) - Len(sep) + 1) : SubSeq(s, k, k + Len(sep) - 1) = sep}
    IN  IF at = {} THEN 0 ELSE Min(at)

\* s.split(sep, 1)[1], for an s that holds sep
AfterFirst(s, sep) == SubSeq(s, Find(s, sep) + Len(sep), Len(s))

\* s.split(sep): the parts of s between the occurrences of sep, from the left
RECURSIVE Split(_, _)
Split(s, sep) ==
    LET k == Find(s, sep)
    IN  IF k = 0 THEN <<s>>
        ELSE <<SubSeq(s, 1, k - 1)>> \o Split(SubSeq(s, k + Len(sep), Len(s)), sep)

\* read_location_graph(include_edges)
read_location_graph(G, include_edges) ==
    LET ns == sorted_places(DOMAIN G.nodes)
        es == sorted_edges(G)
        uris == [k \in 1..Len(ns) |-> LocationUri(ns[k])]
    IN  Ok(IF include_edges
           THEN uris \o [k \in 1..Len(es) |-> TransitionUri(es[k][1], es[k][2])]
           ELSE uris)

\* data["last_visit_ts"] = data["last_visit_ts"].isoformat(), when it is a datetime
Serialised(data, field) ==
    IF Get(data, field, None) # None
    THEN [data EXCEPT ![field] = IsoFormat(@[1])]
    ELSE data

\* {"type": ..., "id": ..., **data}
Payload(type, id, data) == [type |-> type, id |-> id, data |-> data]

\* as read_location, without the .copy(): the conversion is written to the
\* attribute dict of the graph
read_location_in_place(G, place_id) ==
    IF ~has_node(G, Named(place_id))
    THEN [graph |-> G, reply |-> Raise("ValueError", "Location not found")]
    ELSE LET data == Serialised(G.nodes[Named(place_id)], "last_visit_ts")
         IN  [graph |-> [G EXCEPT !.nodes[Named(place_id)] = data],
              reply |-> Ok(Payload("location", place_id, data))]

\* read_location_or_transition on "location:<place_id>": the graph the call
\* leaves and what it returns or raises
read_location(G, place_id) ==
    IF ~has_node(G, Named(place_id))
    THEN [graph |-> G, reply |-> Raise("ValueError", "Location not found")]
    ELSE LET data == Serialised(G.nodes[Named(place_id)], "last_visit_ts")
         IN  [graph |-> G, reply |-> Ok(Payload("location", place_id, data))]

\* read_location_or_transition on "transition:<src_dst>": src, dst =
\* src_dst.split("->") raises unless the split gives two parts
read_transition(G, src_dst) ==
    LET parts == Split(src_dst, Arrow)
    IN  IF Len(parts) # 2
        THEN [graph |-> G, reply |-> Raise("ValueError", "Invalid transition uri")]
        ELSE IF ~has_edge(G, Named(parts[1]), Named(parts[2]))
        THEN [graph |-> G, reply |-> Raise("ValueError", "Transition not found")]
        ELSE LET data == Serialised(G.edges[<<Named(parts[1]), Named(parts[2])>>],
                                    "last_transition_ts")
             IN  [graph |-> G, reply |-> Ok(Payload("transition", src_dst, data))]

\* read_location_or_transition(uri)
read_location_or_transition(G, uri) ==
    IF StartsWith(uri, LocationPrefix)
    THEN read_location(G, AfterFirst(uri, Colon))
    ELSE IF StartsWith(uri, TransitionPrefix)
    THEN read_transition(G, AfterFirst(uri, Colon))
    ELSE [graph |-> G, reply |-> Raise("ValueError", "Unknown resource type")]

\* now - timedelta(days=days)
DaysBefore(now, days) == [now EXCEPT !.day = @ - days]

\* score(node_data) of top_locations
Contribution(node_data, cutoff) ==
    LET last == Get(node_data, "last_visit_ts", None)
    IN  IF last # None /\ ~Earlier(last[1], cutoff)
        THEN Get(node_data, "visits_30d", 0)
        ELSE 0

\* top_locations(days, n), at the time now
top_locations(G, now, days, n) ==
    LET cutoff == DaysBefore(now, days)
        scored == [k \in 1..Len(G.order) |->
                      <<G.order[k], Contribution(G.nodes[G.order[k]], cutoff)>>]
        ranked == sorted_by_count(scored)
    IN  Ok([k \in 1..Len(Take(ranked, n)) |-> ranked[k][1]])

\* as contains, a place that no edge leaves taken for unknown
contains_with_successor(G, current_place) ==
    has_node(G, current_place) /\ G.succ[current_place] # << >>

\* current_place in G
contains(G, current_place) == has_node(G, current_place)

\* if weekday is None or hour is None: both are taken from now
BucketOf(weekday, hour, now) ==
    IF weekday = None \/ hour = None
    THEN Str(Weekday(now)) \o <<"_">> \o Str(now.hour)
    ELSE Str(weekday[1]) \o <<"_">> \o Str(hour[1])

\* as Candidate, an inactive edge given the score 0
CandidateIfActive(dst, data, bucket) ==
    IF Get(data, "active", FALSE)
    THEN <<dst, Get(data, "score", 0)
                  + 6 * Unit * Get(Get(data, "time_buckets", << >>), bucket, 0)>>
    ELSE <<dst, 0>>

\* base + 0.1 * bucket_bonus, in the fixed point of the scores
Candidate(dst, data, bucket) ==
    <<dst, Get(data, "score", 0) + 6 * Unit * Get(Get(data, "time_buckets", << >>), bucket, 0)>>

\* next_location(current_place, weekday, hour, top_k), at the time now
next_location(G, current_place, weekday, hour, top_k, now) ==
    IF ~contains(G, current_place)
    THEN Raise("ValueError", "Unknown current_place")
    ELSE LET bucket == BucketOf(weekday, hour, now)
             outs == out_edges(G, current_place)
             candidates == [k \in 1..Len(outs) |->
                               Candidate(outs[k][2], G.edges[outs[k]], bucket)]
         IN  Ok(Take(sorted_by_count(candidates), top_k))

\* the sum of the counts of the buckets with the keys ks
RECURSIVE SumCounts(_, _)
SumCounts(buckets, ks) ==
    IF ks = {} THEN 0
    ELSE LET k == CHOOSE x \in ks : TRUE
         IN  buckets[k] + SumCounts(buckets, ks \ {k})

\* as PrefixTotal, the counts of every bucket summed
AnyTotal(data, prefix) ==
    LET buckets == Get(data, "time_buckets", << >>)
    IN  SumCounts(buckets, DOMAIN buckets)

\* sum(cnt for bucket, cnt in time_buckets.items() if bucket.startswith(prefix))
PrefixTotal(data, prefix) ==
    LET buckets == Get(data, "time_buckets", << >>)
    IN  SumCounts(buckets, {k \in DOMAIN buckets : StartsWith(k, prefix)})

\* dest_counts after the edges es: a list of (dst, count) in the order the
\* keys entered the dict
RECURSIVE DestCounts(_, _, _, _)
DestCounts(G, es, prefix, counts) ==
    IF es = << >> THEN counts
    ELSE LET dst == Head(es)[2]
             data == G.edges[Head(es)]
             buckets == Get(data, "time_buckets", << >>)
             hit == \E k \in DOMAIN buckets : StartsWith(k, prefix)
             at == {i \in 1..Len(counts) : counts[i][1] = dst}
             next == IF ~hit THEN counts
                     ELSE IF at = {} THEN Append(counts, <<dst, PrefixTotal(data, prefix)>>)
                     ELSE [counts EXCEPT ![CHOOSE i \in at : TRUE][2] =
                                             @ + PrefixTotal(data, prefix)]
         IN  DestCounts(G, Tail(es), prefix, next)

\* top_locations_weekday(weekday, n)
top_locations_weekday(G, weekday, n) ==
    LET prefix == Str(weekday) \o <<"_">>
    IN  Ok(Take(sorted_by_count(DestCounts(G, edges(G), prefix, << >>)), n))

\* route_counts after the edges es: a list of ("src->dst", total)
RECURSIVE RouteCounts(_, _, _)
RouteCounts(G, es, prefix) ==
    IF es = << >> THEN << >>
    ELSE LET total == PrefixTotal(G.edges[Head(es)], prefix)
         IN  (IF total > 0 THEN <<<<<<Head(es)[1], "->", Head(es)[2]>>, total>>>> ELSE << >>)
             \o RouteCounts(G, Tail(es), prefix)

\* top_routes_weekday(weekday, n)
top_routes_weekday(G, weekday, n) ==
    LET prefix == Str(weekday) \o <<"_">>
    IN  Ok(Take(sorted_by_count(RouteCounts(G, edges(G), prefix)), n))

----------------------------------------------------------------------------
(* An input directory with files that do not parse *)

NextBad ==
    \/ \E d \in Days, ps \in RWPlaceSeqs : AddFile(d, ps)
    \/ \E name \in Days \cup {NotADate}, ps \in RWPlaceSeqs : AddBadFile(name, ps)
    \/ Updater
    \/ RunLoadFails

SpecBad == Init /\ [][NextBad]_vars

----------------------------------------------------------------------------
(* The updater process killed and started again *)

\* the process is killed while run is executing: its memory is lost, the
\* files stay as they are; the process started after a kill runs to its end
Crash ==
    /\ pc \notin {"exited", "ready"}
    /\ out.msg # "killed"
    /\ pc' = "exited"
    /\ out' = [msg |-> "killed", n |-> 0]
    /\ graph' = DiGraph
    /\ last_update' = None
    /\ meta' = None
    /\ NoLocals
    /\ UNCHANGED <<files, disk_graph, disk_meta, loaded, reply, clock, mtime, cache>>

\* __init__ on a metadata.json that is empty or cut short: _init_storage and
\* load_graph run, then json.load raises and the process ends
ConstructFails ==
    /\ pc = "exited"
    /\ init_storage(disk_meta, None).kind # "complete"
    /\ disk_graph' = init_storage(disk_graph, DiGraph)
    /\ mtime' = Written(disk_graph, init_storage(disk_graph, DiGraph))
    /\ out' = [msg |-> "JSONDecodeError", n |-> 0]
    /\ UNCHANGED <<files, pc, graph, last_update, meta, daily_data, bi, ri,
                   disk_meta, loaded, reply, clock, cache>>

NextCrash ==
    \/ \E d \in Days, ps \in RWPlaceSeqs : AddFile(d, ps)
    \/ Updater
    \/ Crash
    \/ ConstructFails

SpecCrash == Init /\ [][NextCrash]_vars

----------------------------------------------------------------------------
(* The server: tool calls on the snapshot the updater left *)

\* the arguments the tools are called with
Nows == {[day |-> 33, hour |-> 14, minute |-> 0], [day |-> 65, hour |-> 14, minute |-> 0]}
DaysArgs == {30}
Limits == {1, 5}
PlaceArgs == Places \cup {"c"}
WeekdayArgs == {2, 3, 7}
HourArgs == {14, 24}
Optional(S) == {None} \cup {Some(x) : x \in S}
UriArgs ==
    {LocationUri(p) : p \in PlaceArgs}
       \cup {TransitionUri(u, v) : u \in Places, v \in PlaceArgs}
       \cup {TransitionPrefix \o <<"a">>, <<"p", "l", "a", "c", "e", ":", "a">>}

\* what _load_graph gives, as the outcome of a tool that cannot go on
LoadError(snap) == Raise(snap.kind, "graph.pkl")

\* a tool call is served between two runs of the updater, from the graph G it
\* has loaded: after is that graph when the tool returns, r its outcome
Serve(tool, args, after, r) ==
    /\ pc = "exited"
    /\ reply = NoReply
    /\ loaded' = after
    /\ reply' = [tool |-> tool, args |-> args, kind |-> r.kind, value |-> r.value]
    /\ UNCHANGED <<files, pc, graph, last_update, meta, daily_data, bi, ri,
                   disk_graph, disk_meta, out, clock, mtime, cache>>

CallReadLocationGraph(include_edges) ==
    LET snap == ReadSnapshot(disk_graph)
    IN  Serve("read_location_graph", [include_edges |-> include_edges], snap,
              IF snap.kind = "graph" THEN read_location_graph(snap.data, include_edges)
              ELSE LoadError(snap))

CallReadLocationOrTransition(uri) ==
    LET snap == ReadSnapshot(disk_graph)
        r == read_location_or_transition(snap.data, uri)
    IN  Serve("read_location_or_transition", [uri |-> uri],
              IF snap.kind = "graph" THEN [snap EXCEPT !.data = r.graph] ELSE snap,
              IF snap.kind = "graph" THEN r.reply ELSE LoadError(snap))

CallTopLocations(now, days, n) ==
    LET snap == ReadSnapshot(disk_graph)
    IN  Serve("top_locations", [now |-> now, days |-> days, n |-> n], snap,
              IF snap.kind = "graph" THEN top_locations(snap.data, now, days, n)
              ELSE LoadError(snap))

\* the reading of datetime.now that next_location makes, if it makes one
Clock(weekday, hour, now) == IF weekday = None \/ hour = None THEN Some(now) ELSE None

CallNextLocation(current_place, weekday, hour, top_k, now) ==
    LET snap == ReadSnapshot(disk_graph)
    IN  Serve("next_location",
              [current_place |-> current_place, weekday |-> weekday, hour |-> hour,
               top_k |-> top_k, clock |-> Clock(weekday, hour, now)],
              snap,
              IF snap.kind = "graph"
              THEN next_location(snap.data, current_place, weekday, hour, top_k, now)
              ELSE LoadError(snap))

CallTopLocationsWeekday(weekday, n) ==
    LET snap == ReadSnapshot(disk_graph)
    IN  Serve("top_locations_weekday", [weekday |-> weekday, n |-> n], snap,
              IF snap.kind = "graph" THEN top_locations_weekday(snap.data, weekday, n)
              ELSE LoadError(snap))

CallTopRoutesWeekday(weekday, n) ==
    LET snap == ReadSnapshot(disk_graph)
    IN  Serve("top_routes_weekday", [weekday |-> weekday, n |-> n], snap,
              IF snap.kind = "graph" THEN top_routes_weekday(snap.data, weekday, n)
              ELSE LoadError(snap))

\* the client takes the reply; the graph of the call is dropped with its frame
Return ==
    /\ reply # NoReply
    /\ reply' = NoReply
    /\ loaded' = NotLoaded
    /\ UNCHANGED <<files, pc, graph, last_update, meta, daily_data, bi, ri,
                   disk_graph, disk_meta, out, clock, mtime, cache>>

ToolCall ==
    \/ \E include_edges \in BOOLEAN : CallReadLocationGraph(include_edges)
    \/ \E uri \in UriArgs : CallReadLocationOrTransition(uri)
    \/ \E now \in Nows, days \in DaysArgs, n \in Limits : CallTopLocations(now, days, n)
    \/ \E current_place \in PlaceArgs, weekday \in Optional(WeekdayArgs),
          hour \in Optional(HourArgs), top_k \in Limits, now \in Nows :
             CallNextLocation(current_place, weekday, hour, top_k, now)
    \/ \E weekday \in WeekdayArgs, n \in Limits : CallTopLocationsWeekday(weekday, n)
    \/ \E weekday \in WeekdayArgs, n \in Limits : CallTopRoutesWeekday(weekday, n)

\* the daily files of the updater whose snapshots the server reads
QPlaceSeqs == {<<"b">>, <<"a", "b">>, <<"b", "a">>, <<"a", "a">>, <<"b", "a", "a">>}

\* The updater adds files and runs while no reply is under way.
NextQ ==
    \/ reply = NoReply /\ \E d \in Days, ps \in QPlaceSeqs : AddFile(d, ps)
    \/ reply = NoReply /\ Updater
    \/ ToolCall
    \/ Return

SpecQ == Init /\ [][NextQ]_vars

----------------------------------------------------------------------------
(* The sample data of generate_test_data.py, updated and queried *)

\* base_date = datetime(2025, 7, 23), as a day number
base_date == 2

\* sample_staypoints: place_id and the hour and minute of the start
sample_staypoints ==
    << <<<<"loc_home", 7, 0>>, <<"loc_work", 8, 30>>,
         <<"loc_gym", 17, 30>>, <<"loc_home", 19, 0>>>>,
       <<<<"loc_home", 7, 15>>, <<"loc_coffee", 8, 30>>,
         <<"loc_work", 9, 30>>, <<"loc_home", 18, 0>>>>,
       <<<<"loc_home", 6, 50>>, <<"loc_park", 8, 0>>,
         <<"loc_work", 9, 30>>, <<"loc_home", 17, 30>>>> >>

\* the rows of the file written for dates[idx]
SampleRows(idx) ==
    LET stays == sample_staypoints[idx + 1]
    IN  [k \in 1..Len(stays) |->
            [place_id  |-> stays[k][1],
             start_iso |-> IsoFormat([day |-> base_date + idx, hour |-> stays[k][2],
                                      minute |-> stays[k][3]])]]

\* the input directory after generate_test_data.py has run
SampleFiles == [d \in {base_date + idx : idx \in 0..2} |-> SampleRows(d - base_date)]

InitScenario ==
    /\ files = SampleFiles
    /\ pc = "exited"
    /\ graph = DiGraph
    /\ last_update = None
    /\ meta = None
    /\ daily_data = << >>
    /\ bi = 0
    /\ ri = 0
    /\ disk_graph = AbsentFile
    /\ disk_meta = AbsentFile
    /\ out = [msg |-> "", n |-> 0]
    /\ loaded = NotLoaded
    /\ reply = NoReply
    /\ clock = 0
    /\ mtime = None
    /\ cache = GraphCache

\* the times and the limits top_locations is called with
ScenarioNows ==
    {[day |-> 4, hour |-> 0, minute |-> 0], [day |-> 4, hour |-> 23, minute |-> 0],
     [day |-> 20, hour |-> 12, minute |-> 0], [day |-> 34, hour |-> 0, minute |-> 0],
     [day |-> 40, hour |-> 0, minute |-> 0]}
ScenarioLimits == 1..5

NextScenario ==
    \/ reply = NoReply /\ Updater
    \/ \E now \in ScenarioNows, n \in ScenarioLimits : CallTopLocations(now, 30, n)
    \/ Return

SpecScenario == InitScenario /\ [][NextScenario]_vars

----------------------------------------------------------------------------
(* Daily files whose rows start before the date of the file name *)

\* the days from the start of the rows to the date of the file name
Lags == {0, 3}

\* a daily file named for day d appears, its rows starting lag days earlier
AddLateFile(d, lag, ps) ==
    /\ pc = "exited"
    /\ d \notin DOMAIN files
    /\ d >= lag
    /\ TotalRows(files) + Len(ps) <= MaxRows
    /\ files' = (d :> RowsOf(d - lag, ps)) @@ files
    /\ UNCHANGED <<pc, graph, last_update, meta, daily_data, bi, ri,
                   disk_graph, disk_meta, out, loaded, reply, clock, mtime, cache>>

NextLate ==
    \/ \E d \in Days, lag \in Lags, ps \in RWPlaceSeqs : AddLateFile(d, lag, ps)
    \/ Updater

SpecLate == Init /\ [][NextLate]_vars

----------------------------------------------------------------------------
(* GraphCache of fastapi_location_server.py beside the updater *)

\* the ticks of st_mtime that pass
MaxTime == 2

\* time passes
Tick ==
    /\ clock < MaxTime
    /\ clock' = clock + 1
    /\ UNCHANGED <<files, pc, graph, last_update, meta, daily_data, bi, ri,
                   disk_graph, disk_meta, out, loaded, reply, mtime, cache>>

\* what get_graph returns: the graph, and whether the call opened graph.pkl
Got(G, opened) == Ok([graph |-> G, opened |-> opened])

\* as get_graph, the file read only while no graph is cached
get_graph_once(c, file, curr_ts) ==
    IF curr_ts = None
    THEN [cache |-> c, reply |-> Raise("HTTPException", "graph.pkl not found")]
    ELSE IF c.graph = None
    THEN LET snap == ReadSnapshot(file)
         IN  IF snap.kind = "graph"
             THEN [cache |-> [mod_ts |-> curr_ts, graph |-> Some(snap.data)],
                   reply |-> Got(snap.data, TRUE)]
             ELSE [cache |-> c, reply |-> LoadError(snap)]
    ELSE [cache |-> c, reply |-> Got(c.graph[1], FALSE)]

\* GraphCache.get_graph of the cache c, graph.pkl being file with the
\* st_mtime curr_ts: the cache it leaves and what it returns or raises
get_graph(c, file, curr_ts) ==
    IF curr_ts = None
    THEN [cache |-> c, reply |-> Raise("HTTPException", "graph.pkl not found")]
    ELSE IF c.graph = None \/ c.mod_ts # curr_ts
    THEN LET snap == ReadSnapshot(file)
         IN  IF snap.kind = "graph"
             THEN [cache |-> [mod_ts |-> curr_ts, graph |-> Some(snap.data)],
                   reply |-> Got(snap.data, TRUE)]
             ELSE [cache |-> c, reply |-> LoadError(snap)]
    ELSE [cache |-> c, reply |-> Got(c.graph[1], FALSE)]

\* an endpoint asks for the graph: Depends(get_graph)
CallGetGraph ==
    /\ pc = "exited"
    /\ reply = NoReply
    /\ LET r == get_graph(cache, disk_graph, mtime)
       IN  /\ cache' = r.cache
           /\ reply' = [tool |-> "get_graph", args |-> [cached |-> cache.graph],
                        kind |-> r.reply.kind, value |-> r.reply.value]
    /\ UNCHANGED <<files, pc, graph, last_update, meta, daily_data, bi, ri,
                   disk_graph, disk_meta, out, loaded, clock, mtime>>

\* the daily files of the updater whose snapshots the cache reads
CachePlaceSeqs == {<<"a">>, <<"a", "b">>}

NextCache ==
    \/ reply = NoReply /\ \E d \in Days, ps \in CachePlaceSeqs : AddFile(d, ps)
    \/ reply = NoReply /\ Updater
    \/ Tick
    \/ CallGetGraph
    \/ Return

SpecCache == Init /\ [][NextCache]_vars

----------------------------------------------------------------------------
(* The resource tools on place identifiers that hold ":" or "->" *)

\* the daily files of the updater whose graph is listed and read
UriPlaceSeqs == {<<"a", "b">>, <<"a->b", "b">>, <<"a:b", "a">>, <<"b", "a->b">>}

\* the uris the read tool is called with: those of the listing, and some
\* that the listing never gives
ReadArgs ==
    LET names == {"a", "b", "a->b", "a:b"}
    IN  {LocationUri(p) : p \in names \cup {"c"}}
           \cup {TransitionUri(u, v) : u, v \in names}
           \cup {TransitionPrefix \o <<"a">>, <<"p", "l", "a", "c", "e", ":", "a">>}

NextUri ==
    \/ reply = NoReply /\ \E d \in Days, ps \in UriPlaceSeqs : AddFile(d, ps)
    \/ reply = NoReply /\ Updater
    \/ CallReadLocationGraph(TRUE)
    \/ \E uri \in ReadArgs : CallReadLocationOrTransition(uri)
    \/ Return

SpecUri == Init /\ [][NextUri]_vars

----------------------------------------------------------------------------
(* Properties *)

Nodes == DOMAIN graph.nodes
Edges == DOMAIN graph.edges

\* the date of a watermark, None being before every date
DayOf(watermark) == IF watermark = None THEN -1 ELSE watermark[1].day

\* every file of the input directory is dated on or before the watermark
NothingNew == \A d \in DOMAIN files : d <= DayOf(last_update)

\* C1: a cycle run while every batch is dated on or before the watermark is a
\* no-op: run returns at once and the graph in memory, graph.pkl, the watermark
\* in memory and metadata.json are unchanged; and the process started after a
\* cycle loads exactly the state that cycle left, so a second cycle over the
\* same directory ends in the state of the first.
C1_Idempotence ==
    [][/\ (pc = "ready" /\ pc' # "ready" /\ NothingNew)
            => /\ pc' = "exited"
               /\ UNCHANGED <<graph, last_update, meta, disk_graph, disk_meta>>
       /\ (pc = "exited" /\ pc' = "ready" /\ out.msg # "")
            => UNCHANGED <<graph, last_update, meta, disk_graph, disk_meta>>]_vars

\* a cycle over a directory of two files, all of them processed before, has
\* just returned without an update
C1_Witness ==
    /\ pc = "exited"
    /\ out.msg = "No new data to process."
    /\ last_update # None
    /\ Cardinality(DOMAIN files) >= 2
    /\ Nodes # {}

\* C2: the watermark never decreases, in memory (restarts included) and in
\* metadata.json, whose every written value is the watermark in memory; and a
\* cycle that processed at least one batch ends with the watermark at the
\* latest date of the batches it processed.
C2_WatermarkMonotone ==
    [][/\ DayOf(last_update) <= DayOf(last_update')
       /\ (disk_meta' # disk_meta /\ disk_meta'.kind = "complete")
            => disk_meta'.data = MetaOf(last_update')
       /\ (pc = "dump_meta" /\ pc' = "exited")
            => /\ \E b \in 1..Len(daily_data) : last_update' = Some(daily_data[b].date)
               /\ \A b \in 1..Len(daily_data) :
                     daily_data[b].date.day <= DayOf(last_update')
               /\ WatermarkOf(disk_meta'.data) = last_update']_vars

\* a cycle that processed two batches has ended, after an earlier cycle
C2_Witness ==
    /\ pc = "exited"
    /\ out.msg = "Graph updated"
    /\ out.n >= 2
    /\ Cardinality(DOMAIN files) >= 3
    /\ DayOf(last_update) = Max(DOMAIN files)

\* the writer is inside persist_graph
InPersist == pc \in {"dump_graph", "open_meta", "dump_meta"}

\* C3: a snapshot load that runs while the writer is in persist_graph obtains
\* a complete snapshot, the previous one or the new one, never an empty or
\* partly written file.
C3_AtomicPublication ==
    [][(InPersist /\ loaded' # loaded)
          => /\ loaded'.kind = "graph"
             /\ \/ loaded'.data = graph
                \/ disk_graph.kind = "complete" /\ loaded'.data = disk_graph.data]_vars

\* the updater stands between the end of prune_graph and the next update
AfterPrune == pc \in {"persist", "dump_graph", "open_meta", "dump_meta", "exited", "ready"}

\* more than inactive_days_threshold days from last to the watermark, and the
\* short-window counter below visit_threshold
ShouldBeInactive(last, counter) ==
    /\ DaysBetween(last_update[1], last[1]) > inactive_days_threshold
    /\ counter < visit_threshold * Unit

\* C4: once prune_graph has completed, a node or an edge is inactive if and
\* only if its last activity is more than inactive_days_threshold days before
\* the watermark and its short-window counter is below visit_threshold.
C4_PruneClassification ==
    AfterPrune =>
        /\ \A n \in Nodes :
              (~graph.nodes[n].active)
                 <=> ShouldBeInactive(graph.nodes[n].last_visit_ts, graph.nodes[n].visits_30d)
        /\ \A e \in Edges :
              (~graph.edges[e].active)
                 <=> ShouldBeInactive(graph.edges[e].last_transition_ts,
                                      graph.edges[e].transitions_30d)

\* a cycle has ended on a graph with an inactive node, an active node and an
\* inactive edge
C4_Witness ==
    /\ pc = "exited"
    /\ out.msg = "Graph updated"
    /\ \E n \in Nodes : ~graph.nodes[n].active
    /\ \E n \in Nodes : graph.nodes[n].active
    /\ \E e \in Edges : ~graph.edges[e].active

\* C5: the removal step of a hard prune leaves no inactive node and no
\* inactive edge, removes every inactive node with every edge into or out of
\* it, and leaves no edge with a removed endpoint.
C5_HardPrune ==
    [][(pc = "remove" /\ pc' = "persist")
          => /\ \A n \in Nodes' : graph'.nodes[n].active
             /\ \A e \in Edges' : graph'.edges[e].active
             /\ \A n \in Nodes :
                   (~graph.nodes[n].active)
                      => /\ n \notin Nodes'
                         /\ \A e \in Edges : (e[1] = n \/ e[2] = n) => e \notin Edges'
             /\ \A e \in Edges' : e[1] \in Nodes' /\ e[2] \in Nodes']_vars

\* a hard prune has removed a node that this very cycle visited, and with it
\* an edge that this cycle traversed less than inactive_days_threshold days
\* before the watermark, and has kept another node
C5_Witness ==
    /\ pc = "persist"
    /\ \E b \in 1..Len(daily_data) : \E k \in 2..Len(daily_data[b].rows) :
          /\ daily_data[b].rows[k - 1].place_id \notin Nodes
          /\ <<daily_data[b].rows[k - 1].place_id, daily_data[b].rows[k].place_id>>
                \notin Edges
          /\ DaysBetween(last_update[1], daily_data[b].rows[k].start)
                <= inactive_days_threshold
    /\ Nodes # {}

NodeAttrs == {"visits_30d", "visits_365d", "last_visit_ts", "score", "active"}

\* C6: both endpoints of every edge are nodes that carry the full attribute
\* record of a node.
C6_EdgeEndpoints ==
    \A e \in Edges :
        /\ e[1] \in Nodes /\ DOMAIN graph.nodes[e[1]] = NodeAttrs
        /\ e[2] \in Nodes /\ DOMAIN graph.nodes[e[2]] = NodeAttrs

\* a hard prune has removed a node and its edge into a node that stays, and
\* has left an edge in the graph
C6_Witness ==
    /\ pc = "persist"
    /\ Edges # {}
    /\ \E b \in 1..Len(daily_data) : \E k \in 2..Len(daily_data[b].rows) :
          /\ daily_data[b].rows[k - 1].place_id \notin Nodes
          /\ daily_data[b].rows[k].place_id \in Nodes

\* the row update_graph is processing
Batch == daily_data[bi]
Row == Batch.rows[ri]
PrevRow == Batch.rows[ri - 1]

\* the counter an entity has before a touch: 0 when it does not exist yet
NodeCounter(G, n) == IF n \in DOMAIN G.nodes THEN G.nodes[n].visits_30d ELSE 0
EdgeCounter(G, e) == IF e \in DOMAIN G.edges THEN G.edges[e].transitions_30d ELSE 0

\* C7: one processed visit takes the short-window counter of its node from p
\* (0 for a new node) to decay_rate * p + 1, and one processed transition does
\* the same to the counter of its edge.
C7_DecayRecurrence ==
    [][/\ pc = "visits"
            => DecayDen * graph'.nodes[Row.place_id].visits_30d
                  = DecayNum * NodeCounter(graph, Row.place_id) + DecayDen * Unit
       /\ pc = "transitions"
            => LET e == <<PrevRow.place_id, Row.place_id>>
               IN  DecayDen * graph'.edges[e].transitions_30d
                      = DecayNum * EdgeCounter(graph, e) + DecayDen * Unit]_vars

\* a node visited three times and an edge traversed twice
C7_Witness ==
    /\ \E n \in Nodes : graph.nodes[n].visits_30d = 1141 * (Unit \div 400)
    /\ \E e \in Edges : graph.edges[e].transitions_30d = 39 * (Unit \div 20)

\* the places visited and the transitions made in the batch being processed
BatchPlaces == {Batch.rows[k].place_id : k \in 1..Len(Batch.rows)}
BatchTransitions ==
    {<<Batch.rows[k - 1].place_id, Batch.rows[k].place_id>> : k \in 2..Len(Batch.rows)}

InBatch == pc \in {"visits", "transitions", "batch_end"}

\* C8: while a batch is processed, every node it does not visit and every edge
\* it does not traverse keeps all its attributes.
C8_TouchOnly ==
    [][InBatch
          => /\ \A n \in Nodes \ BatchPlaces :
                   n \in Nodes' /\ graph'.nodes[n] = graph.nodes[n]
             /\ \A e \in Edges \ BatchTransitions :
                   e \in Edges' /\ graph'.edges[e] = graph.edges[e]]_vars

\* a batch of two visits is processed, and the graph holds a node last visited
\* more than 60 days before it and an edge, neither touched by the batch
C8_Witness ==
    /\ pc = "batch_end"
    /\ Len(Batch.rows) >= 2
    /\ \E n \in Nodes \ BatchPlaces :
          DaysBetween(Batch.date, graph.nodes[n].last_visit_ts[1]) > 60
    /\ Edges \ BatchTransitions # {}

\* the time buckets an edge has before a transition: none when it does not exist
EdgeBuckets(G, e) == IF e \in DOMAIN G.edges THEN G.edges[e].time_buckets ELSE << >>

\* "<weekday>_<hour>" of a timestamp, Monday being 0
ExpectedBucket(ts) ==
    <<Digit(ts.day % 7), "_">>
       \o (IF ts.hour < 10 THEN <<Digit(ts.hour)>>
           ELSE <<Digit(ts.hour \div 10), Digit(ts.hour % 10)>>)

\* C9: one processed transition adds 1 to the bucket "<weekday>_<hour>" of the
\* start of its destination visit (Wednesday 14:00: "2_14") on its own edge,
\* and changes no other bucket of that edge and no bucket of another edge.
C9_BucketCorrectness ==
    [][pc = "transitions"
          => LET e == <<PrevRow.place_id, Row.place_id>>
                 key == ExpectedBucket(Row.start)
                 old == EdgeBuckets(graph, e)
                 new == graph'.edges[e].time_buckets
             IN  /\ (Row.start.day = 2 /\ Row.start.hour = 14)
                       => key = <<"2", "_", "1", "4">>
                 /\ DOMAIN new = DOMAIN old \cup {key}
                 /\ new[key] = Get(old, key, 0) + 1
                 /\ \A k \in DOMAIN old \ {key} : new[k] = old[k]
                 /\ Edges' = Edges \cup {e}
                 /\ \A f \in Edges \ {e} :
                       graph'.edges[f].time_buckets = graph.edges[f].time_buckets]_vars

\* an edge traversed on Wednesday at 14:00 and at another time
C9_Witness ==
    \E e \in Edges :
        /\ Get(graph.edges[e].time_buckets, <<"2", "_", "1", "4">>, 0) = 1
        /\ Cardinality(DOMAIN graph.edges[e].time_buckets) >= 2

\* the attribute records x and y differ in nothing but "active"
SameButActive(x, y) ==
    /\ DOMAIN x = DOMAIN y
    /\ \A k \in DOMAIN x \ {"active"} : x[k] = y[k]

\* C10: a soft prune leaves the nodes and the edges in place and changes no
\* attribute of them other than active.
C10_SoftPrune ==
    [][(pc = "prune" /\ pc' = "persist")
          => /\ Nodes' = Nodes
             /\ Edges' = Edges
             /\ \A n \in Nodes : SameButActive(graph'.nodes[n], graph.nodes[n])
             /\ \A e \in Edges : SameButActive(graph'.edges[e], graph.edges[e])]_vars

\* a soft prune has marked a node and an edge inactive
C10_Witness ==
    /\ pc = "persist"
    /\ \E n \in Nodes : ~graph.nodes[n].active
    /\ \E e \in Edges : ~graph.edges[e].active

\* the updater process starts: __init__ runs to its end or raises
Starts ==
    /\ pc = "exited"
    /\ UNCHANGED <<files, loaded, reply>>
    /\ pc' = "ready" \/ out'.msg = "JSONDecodeError"

\* C11: when the updater starts on a graph.pkl that is absent, empty or cut
\* short, __init__ does not raise and leaves an empty graph and a null
\* watermark in memory.
C11_LoadRecovery ==
    [][(Starts /\ disk_graph.kind # "complete")
          => /\ pc' = "ready"
             /\ graph' = DiGraph
             /\ last_update' = None]_vars

\* the files of the directory that parse, name and rows, and are dated after
\* the watermark
ValidNew ==
    {d \in DOMAIN files :
        strptime_ok(d) /\ RowsParse(files[d]) /\ IsNew(FileDate(d), last_update)}

\* a file of the directory does not parse, by its name or by a row
SomeMalformed == \E d \in DOMAIN files : ~strptime_ok(d) \/ ~RowsParse(files[d])

\* C12: when a file of the directory does not parse, the load of run still
\* returns every valid batch dated after the watermark, and the cycle goes on
\* to process them.
C12_FailureIsolation ==
    [][(pc = "ready" /\ pc' # "ready" /\ SomeMalformed)
          => /\ \A d \in ValidNew :
                   \E b \in 1..Len(daily_data') : daily_data'[b].date = FileDate(d)
             /\ ValidNew # {} => pc' # "exited"]_vars

\* the batch b of dd holds the rows of the file dated d, in file order
SameRows(dd, b, d) ==
    /\ dd[b].date = [day |-> d, hour |-> 0, minute |-> 0]
    /\ Len(dd[b].rows) = Len(files[d])
    /\ \A k \in 1..Len(files[d]) :
          /\ dd[b].rows[k].place_id = files[d][k].place_id
          /\ IsoFormat(dd[b].rows[k].start) = files[d][k].start_iso

\* C13: the load of run returns exactly the files dated after the watermark
\* (all files when it is null), each with its rows in file order, in ascending
\* order of date, and an empty sequence with the message of a no-op, not an
\* error, when there is none; update_graph takes the batches in that order,
\* one after the other, and the visits of a batch from the first row on.
C13_BatchSelection ==
    [][/\ (pc = "ready" /\ pc' # "ready")
            => LET new == {d \in DOMAIN files : d > DayOf(last_update)}
                   dd == daily_data'
               IN  /\ Len(dd) = Cardinality(new)
                   /\ \A d \in new : \E b \in 1..Len(dd) : SameRows(dd, b, d)
                   /\ \A b \in 1..(Len(dd) - 1) : dd[b].date.day < dd[b + 1].date.day
                   /\ (new = {}) <=> (pc' = "exited")
                   /\ (new = {}) => out'.msg = "No new data to process."
                   /\ (new # {}) => bi' = 1
       /\ (pc # "visits" /\ pc' = "visits") => ri' = 1
       /\ (pc = "visits")
            => /\ graph'.nodes[Row.place_id].last_visit_ts = Some(Row.start)
               /\ IF ri < Len(Batch.rows)
                  THEN pc' = "visits" /\ ri' = ri + 1 /\ bi' = bi
                  ELSE pc' # "visits"
       /\ (pc = "batch_end")
            => IF bi < Len(daily_data)
               THEN bi' = bi + 1 /\ pc' # "update_meta"
               ELSE pc' = "update_meta"]_vars

\* update_graph starts on the first of two new batches, the later one with two
\* rows, while the directory holds a file dated on or before the watermark
C13_Witness ==
    /\ pc = "visits" /\ bi = 1 /\ ri = 1
    /\ Len(daily_data) = 2
    /\ Len(daily_data[2].rows) = 2
    /\ \E d \in DOMAIN files : d <= DayOf(last_update)

\* a tool call is served in this step
Called(tool) == reply = NoReply /\ reply' # NoReply /\ reply'.tool = tool

\* a tool call is served in this step from a graph it could load
Answered(tool) == Called(tool) /\ loaded'.kind = "graph"

Range(s) == {s[k] : k \in 1..Len(s)}

\* the minutes of d days
MinutesOfDays(d) == d * 24 * 60

\* visits_30d of the node when its last visit is not before now - days, else 0
WindowVisits(G, n, now, days) ==
    IF Minutes(G.nodes[n].last_visit_ts[1]) >= Minutes(now) - MinutesOfDays(days)
    THEN G.nodes[n].visits_30d
    ELSE 0

\* C15: top_locations(days, n) returns min(n, number of nodes) distinct nodes,
\* each of a greater contribution than the next, or of the same contribution
\* and a smaller identifier, and no node left out is ahead of one returned.
C15_TopLocations ==
    [][Answered("top_locations")
          => LET G == loaded'.data
                 r == reply'.value
                 c(x) == WindowVisits(G, x, reply'.args.now, reply'.args.days)
                 Ahead(x, y) == c(x) > c(y) \/ (c(x) = c(y) /\ Rank(x) < Rank(y))
             IN  /\ reply'.kind = "ok"
                 /\ Len(r) = Min({reply'.args.n, Cardinality(DOMAIN G.nodes)})
                 /\ Range(r) \subseteq DOMAIN G.nodes
                 /\ \A i, j \in 1..Len(r) : i < j => Ahead(r[i], r[j])
                 /\ \A x \in DOMAIN G.nodes \ Range(r) :
                       \A i \in 1..Len(r) : Ahead(r[i], x)]_vars

\* C16: next_location with weekday and hour given returns min(top_k, number
\* of edges out of current_place) pairs, one per edge, of the destination and
\* edge.score + 0.1 * time_buckets.get("<weekday>_<hour>", 0), each of a
\* greater score than the next, or of the same score and a smaller
\* destination, and no edge left out is ahead of one returned.
C16_NextLocation ==
    [][(Answered("next_location") /\ reply'.kind = "ok"
          /\ reply'.args.weekday # None /\ reply'.args.hour # None)
          => LET G == loaded'.data
                 r == reply'.value
                 a == reply'.args
                 key == Str(a.weekday[1]) \o <<"_">> \o Str(a.hour[1])
                 dsts == {e[2] : e \in {f \in DOMAIN G.edges : f[1] = a.current_place}}
                 c(d) == LET data == G.edges[<<a.current_place, d>>]
                         IN  data.score + 6 * Unit * Get(data.time_buckets, key, 0)
                 Ahead(x, y) == c(x) > c(y) \/ (c(x) = c(y) /\ Rank(x) < Rank(y))
             IN  /\ Len(r) = Min({a.top_k, Cardinality(dsts)})
                 /\ \A i \in 1..Len(r) : r[i][1] \in dsts /\ r[i][2] = c(r[i][1])
                 /\ \A i, j \in 1..Len(r) : i < j => Ahead(r[i][1], r[j][1])
                 /\ \A x \in dsts \ {r[i][1] : i \in 1..Len(r)} :
                       \A i \in 1..Len(r) : Ahead(r[i][1], x)]_vars

\* C17: next_location raises its not-found error if and only if current_place
\* is no node of the graph, and returns an empty list for a node that no edge
\* leaves.
C17_UnknownOrNoSuccessor ==
    [][Answered("next_location")
          => LET G == loaded'.data
                 cp == reply'.args.current_place
             IN  /\ (reply'.kind # "ok") <=> (cp \notin DOMAIN G.nodes)
                 /\ (cp \notin DOMAIN G.nodes)
                       => reply'.kind = "ValueError" /\ reply'.value = "Unknown current_place"
                 /\ (cp \in DOMAIN G.nodes /\ ~\E e \in DOMAIN G.edges : e[1] = cp)
                       => reply'.kind = "ok" /\ reply'.value = << >>]_vars

\* next_location has returned an empty list for a node whose only transition
\* in the processed files led to a node that a hard prune has removed
C17_Witness ==
    /\ reply.tool = "next_location"
    /\ reply.kind = "ok"
    /\ reply.value = << >>
    /\ LET cp == reply.args.current_place
       IN  /\ cp \in DOMAIN loaded.data.nodes
           /\ \E d \in DOMAIN files : \E k \in 2..Len(files[d]) :
                 /\ d <= DayOf(last_update)
                 /\ files[d][k - 1].place_id = cp
                 /\ files[d][k].place_id \notin DOMAIN loaded.data.nodes

\* the call has a weekday outside 0..6, or, for next_location, an hour
\* outside 0..23
OutOfRange(tool, args) ==
    \/ /\ tool \in {"top_locations_weekday", "top_routes_weekday"}
       /\ args.weekday \notin 0..6
    \/ /\ tool = "next_location"
       /\ \/ args.weekday # None /\ args.weekday[1] \notin 0..6
          \/ args.hour # None /\ args.hour[1] \notin 0..23

\* C18: a call of top_locations_weekday, top_routes_weekday or next_location
\* with a weekday outside 0..6 or an hour outside 0..23 does not return a
\* ranking: it raises.
C18_Validation ==
    [][(reply = NoReply /\ reply' # NoReply /\ loaded'.kind = "graph"
          /\ OutOfRange(reply'.tool, reply'.args))
          => reply'.kind # "ok"]_vars

\* the weekday a bucket key "<weekday>_<hour>" stands for
WeekdayOfKey(key) ==
    LET u == CHOOSE k \in 1..Len(key) : key[k] = "_"
    IN  ParseInt(SubSeq(key, 1, u - 1))

\* the transitions over the edge e counted in the buckets of weekday w
OnWeekday(G, e, w) ==
    LET buckets == G.edges[e].time_buckets
    IN  SumCounts(buckets, {k \in DOMAIN buckets : WeekdayOfKey(k) = w})

\* the sum of f[x] over the x of S
RECURSIVE SumOver(_, _)
SumOver(f, S) ==
    IF S = {} THEN 0
    ELSE LET x == CHOOSE y \in S : TRUE IN f[x] + SumOver(f, S \ {x})

\* the transitions into d counted in the buckets of weekday w
IntoOnWeekday(G, d, w) ==
    LET into == {e \in DOMAIN G.edges : e[2] = d}
    IN  SumOver([e \in into |-> OnWeekday(G, e, w)], into)

\* C19: for a weekday in 0..6 and n not below the number of edges,
\* top_routes_weekday lists exactly the edges with a positive count on that
\* weekday, each once as "src->dst" with that count, and
\* top_locations_weekday lists exactly the destinations with a positive count
\* of transitions into them on that weekday, each once with that count, which
\* is the sum of the counts of the routes listed for it; with a smaller n
\* each lists at most n of them.
C19_WeekdayAggregation ==
    [][/\ (Answered("top_routes_weekday") /\ reply'.args.weekday \in 0..6)
            => LET G == loaded'.data
                   w == reply'.args.weekday
                   r == reply'.value
                   all == {<<<<e[1], "->", e[2]>>, OnWeekday(G, e, w)>> :
                              e \in {f \in DOMAIN G.edges : OnWeekday(G, f, w) > 0}}
               IN  /\ reply'.kind = "ok"
                   /\ Len(r) <= reply'.args.n
                   /\ Range(r) \subseteq all
                   /\ Cardinality(Range(r)) = Len(r)
                   /\ reply'.args.n >= Cardinality(DOMAIN G.edges) => Range(r) = all
       /\ (Answered("top_locations_weekday") /\ reply'.args.weekday \in 0..6)
            => LET G == loaded'.data
                   w == reply'.args.weekday
                   r == reply'.value
                   all == {<<d, IntoOnWeekday(G, d, w)>> :
                              d \in {x \in DOMAIN G.nodes : IntoOnWeekday(G, x, w) > 0}}
                   routes == top_routes_weekday(G, w, Cardinality(DOMAIN G.edges)).value
                   ending(d) == {k \in 1..Len(routes) : routes[k][1][3] = d}
               IN  /\ reply'.kind = "ok"
                   /\ Len(r) <= reply'.args.n
                   /\ Range(r) \subseteq all
                   /\ Cardinality(Range(r)) = Len(r)
                   /\ reply'.args.n >= Cardinality(DOMAIN G.edges) => Range(r) = all
                   /\ \A i \in 1..Len(r) :
                         r[i][2] = SumOver([k \in ending(r[i][1]) |-> routes[k][2]],
                                           ending(r[i][1]))]_vars

\* top_locations_weekday has returned a destination with the count 2, one
\* transition over each of two edges into it
C19_Witness ==
    /\ reply.tool = "top_locations_weekday"
    /\ reply.kind = "ok"
    /\ \E i \in 1..Len(reply.value) :
          /\ reply.value[i][2] = 2
          /\ Cardinality({e \in DOMAIN loaded.data.edges :
                             /\ e[2] = reply.value[i][1]
                             /\ OnWeekday(loaded.data, e, reply.args.weekday) = 1}) = 2

\* the date of the last sample batch
LastSampleDate == FileDate(base_date + 2)

\* the visits counter of a node after six visits
SixVisits ==
    DecayAndCount(DecayAndCount(DecayAndCount(DecayAndCount(DecayAndCount(DecayAndCount(0))))))

\* C20: once the three sample batches are processed, from an empty graph and
\* with the default parameters, top_locations(days=30, n=1) called at a time
\* within 30 days after the date of the last batch returns ["loc_home"].
C20_Scenario ==
    [][(Answered("top_locations")
          /\ last_update = Some(LastSampleDate)
          /\ reply'.args.days = 30 /\ reply'.args.n = 1
          /\ Minutes(reply'.args.now) - Minutes(LastSampleDate) \in 0..MinutesOfDays(30))
          => reply'.kind = "ok" /\ reply'.value = <<"loc_home">>]_vars

\* the call has returned ["loc_home"] at noon of day 20 from the graph of the
\* five sample places, loc_home visited six times
C20_Witness ==
    /\ reply.tool = "top_locations"
    /\ reply.kind = "ok"
    /\ reply.args.n = 1
    /\ reply.args.now = [day |-> 20, hour |-> 12, minute |-> 0]
    /\ reply.value = <<"loc_home">>
    /\ DOMAIN loaded.data.nodes = {"loc_home", "loc_work", "loc_gym", "loc_coffee", "loc_park"}
    /\ loaded.data.nodes["loc_home"].visits_30d = SixVisits
    /\ loaded.data.nodes["loc_work"].visits_30d > loaded.data.nodes["loc_gym"].visits_30d

\* the bucket key of a call in which each of weekday and hour is the
\* caller's value when given and the value of the clock when omitted
OwnDefaults(args) ==
    LET w == IF args.weekday = None THEN Weekday(args.clock[1]) ELSE args.weekday[1]
        h == IF args.hour = None THEN args.clock[1].hour ELSE args.hour[1]
    IN  Str(w) \o <<"_">> \o Str(h)

\* C21: next_location replaces only the omitted one of weekday and hour by
\* the current value: the score of every pair it returns is edge.score +
\* 0.1 * time_buckets.get(key, 0), key made of the caller's weekday (hour)
\* when it is given, even if the other one is omitted.
C21_Defaulting ==
    [][(Answered("next_location") /\ reply'.kind = "ok" /\ reply'.args.clock # None)
          => LET G == loaded'.data
                 a == reply'.args
                 r == reply'.value
                 key == OwnDefaults(a)
             IN  \A i \in 1..Len(r) :
                    LET data == G.edges[<<a.current_place, r[i][1]>>]
                    IN  r[i][2] = data.score + 6 * Unit * Get(data.time_buckets, key, 0)]_vars

\* 0.5 * (counter / 30) + 0.5, in the fixed point of the scores
HalfRecency(counter) == counter + 30 * Unit

\* the row update_graph is processing starts on the date of its batch
OnBatchDate == Row.start.day = Batch.date.day

\* C22: right after a visit that starts on the date of its batch the score of
\* its node is 0.5 * (visits_30d / 30) + 0.5, and right after such a
\* transition the score of its edge is 0.5 * (transitions_30d / 30) + 0.5; no
\* other step changes the score or the short-window counter of a node or an
\* edge that stays in the graph.
C22_ScoreAfterTouch ==
    [][/\ IF pc = "visits"
          THEN /\ OnBatchDate
                    => graph'.nodes[Row.place_id].score
                          = HalfRecency(graph'.nodes[Row.place_id].visits_30d)
               /\ \A n \in (Nodes \cap Nodes') \ {Row.place_id} :
                     /\ graph'.nodes[n].score = graph.nodes[n].score
                     /\ graph'.nodes[n].visits_30d = graph.nodes[n].visits_30d
          ELSE \A n \in Nodes \cap Nodes' :
                     /\ graph'.nodes[n].score = graph.nodes[n].score
                     /\ graph'.nodes[n].visits_30d = graph.nodes[n].visits_30d
       /\ IF pc = "transitions"
          THEN LET e == <<PrevRow.place_id, Row.place_id>>
               IN  /\ OnBatchDate
                        => graph'.edges[e].score
                              = HalfRecency(graph'.edges[e].transitions_30d)
                   /\ \A f \in (Edges \cap Edges') \ {e} :
                         /\ graph'.edges[f].score = graph.edges[f].score
                         /\ graph'.edges[f].transitions_30d = graph.edges[f].transitions_30d
          ELSE \A f \in Edges \cap Edges' :
                     /\ graph'.edges[f].score = graph.edges[f].score
                     /\ graph'.edges[f].transitions_30d = graph.edges[f].transitions_30d]_vars

\* a cycle has ended on a graph with a node visited twice, last on the date
\* of its batch, and a node and an edge last touched by rows that start three
\* days before the date of their file, whose recency term is below 0.5
C22_Witness ==
    /\ pc = "exited"
    /\ out.msg = "Graph updated"
    /\ \E n \in Nodes :
          /\ graph.nodes[n].visits_30d = 39 * (Unit \div 20)
          /\ graph.nodes[n].last_visit_ts[1].day \in DOMAIN files
          /\ graph.nodes[n].score = HalfRecency(graph.nodes[n].visits_30d)
    /\ \E n \in Nodes : graph.nodes[n].score < HalfRecency(graph.nodes[n].visits_30d)
    /\ \E e \in Edges : graph.edges[e].score < HalfRecency(graph.edges[e].transitions_30d)

\* a get_graph call is served in this step, graph.pkl being a whole snapshot
GetsGraph ==
    /\ reply = NoReply
    /\ reply' # NoReply
    /\ reply'.tool = "get_graph"
    /\ disk_graph.kind = "complete"

\* the marker of graph.pkl is the one of the call that filled the cache
MarkerUnchanged == cache.graph # None /\ cache.mod_ts = mtime

\* C23: a get_graph call made when the marker of graph.pkl differs from the
\* one of the call that filled the cache, or when nothing is cached, returns
\* the graph of the latest publication; a call made when the marker is
\* unchanged returns the cached graph and does not open the file.
C23_CacheFreshness ==
    [][GetsGraph
          => /\ reply'.kind = "ok"
             /\ IF MarkerUnchanged
                THEN /\ reply'.value.graph = cache.graph[1]
                     /\ ~reply'.value.opened
                     /\ cache' = cache
                ELSE /\ reply'.value.graph = disk_graph.data
                     /\ reply'.value.opened
                     /\ cache'.graph = Some(disk_graph.data)
                     /\ cache'.mod_ts = mtime]_vars

\* get_graph has read graph.pkl again and returned the graph of the latest
\* cycle, a graph with an edge, while the cache held the graph of an earlier one
C23_Witness ==
    /\ reply.tool = "get_graph"
    /\ reply.kind = "ok"
    /\ reply.value.opened
    /\ reply.value.graph = disk_graph.data
    /\ DOMAIN reply.value.graph.edges # {}
    /\ reply.args.cached # None
    /\ DOMAIN reply.args.cached[1].nodes # {}
    /\ reply.args.cached[1] # reply.value.graph

\* the uris that the listing gives for the graph G
Listed(G) == Range(read_location_graph(G, TRUE).value)

\* C24: the read tool accepts every uri that the listing with edges gives
\* for the loaded graph and returns the record of that node or that edge,
\* also for place identifiers that hold ":" or "->"; for the uri of a node or
\* an edge that the graph does not have it raises not found, and for a uri
\* of another prefix or a transition part without "->" it raises as well.
C24_RoundTrip ==
    [][Answered("read_location_or_transition")
          => LET G == loaded'.data
                 uri == reply'.args.uri
             IN  /\ \A n \in DOMAIN G.nodes :
                       uri = LocationUri(n)
                          => /\ reply'.kind = "ok"
                             /\ reply'.value.type = "location"
                             /\ reply'.value.data = Serialised(G.nodes[n], "last_visit_ts")
                 /\ \A e \in DOMAIN G.edges :
                       uri = TransitionUri(e[1], e[2])
                          => /\ reply'.kind = "ok"
                             /\ reply'.value.type = "transition"
                             /\ reply'.value.data
                                   = Serialised(G.edges[e], "last_transition_ts")
                 /\ uri \in Listed(G) => reply'.kind = "ok"
                 /\ uri \notin Listed(G) => reply'.kind = "ValueError"
                 /\ (uri \notin Listed(G) /\ \E n \in {"a", "b", "c"} : uri = LocationUri(n))
                       => reply'.value = "Location not found"
                 /\ (uri \notin Listed(G)
                       /\ \E u, v \in {"a", "b"} : uri = TransitionUri(u, v))
                       => reply'.value = "Transition not found"
                 /\ uri = TransitionPrefix \o <<"a">>
                       => reply'.value = "Invalid transition uri"
                 /\ ~(StartsWith(uri, LocationPrefix) \/ StartsWith(uri, TransitionPrefix))
                       => reply'.value = "Unknown resource type"]_vars

\* what a start of the updater finds on disk
PersistedGraph == load_graph(disk_graph)
PersistedWatermark == WatermarkOf(disk_meta.data)

\* the updater is not running and metadata.json is whole
AtRest == pc \in {"exited", "ready"} /\ disk_meta.kind = "complete"

\* the counter of an entity touched k times since its creation
RECURSIVE Touched(_)
Touched(k) == IF k = 0 THEN 0 ELSE DecayAndCount(Touched(k - 1))

\* the visits of the place n in the rows
VisitsIn(rows, n) == Cardinality({k \in 1..Len(rows) : rows[k].place_id = n})

\* the visits of the place n in the files dated on or before the day w
VisitsUpTo(n, w) ==
    LET dates == {d \in DOMAIN files : d <= w}
    IN  SumOver([d \in dates |-> VisitsIn(files[d], n)], dates)

\* C25: whenever the updater is not running, the graph on disk and the
\* watermark on disk fit together, a kill inside persist_graph included: no
\* node of the graph has counted more visits than the files dated on or
\* before the watermark hold for it (no batch is applied twice, none is
\* applied ahead of the watermark), and every place visited in the file of
\* the watermark's date is a node of the graph, last visited not before that
\* row (the batch is not lost).
C25_GraphMatchesWatermark ==
    AtRest =>
        LET G == PersistedGraph
            w == DayOf(PersistedWatermark)
        IN  /\ \A n \in DOMAIN G.nodes : G.nodes[n].visits_30d <= Touched(VisitsUpTo(n, w))
            /\ \A d \in DOMAIN files :
                   d = w => \A k \in 1..Len(files[d]) :
                               /\ files[d][k].place_id \in DOMAIN G.nodes
                               /\ ~Earlier(G.nodes[files[d][k].place_id].last_visit_ts[1],
                                           FromIsoFormat(files[d][k].start_iso))

\* C26: in every state visits_30d equals visits_365d on every node and
\* transitions_30d equals transitions_365d on every edge, in memory and in
\* the graph on disk.
C26_WindowsCoincide ==
    /\ \A n \in Nodes : graph.nodes[n].visits_30d = graph.nodes[n].visits_365d
    /\ \A e \in Edges : graph.edges[e].transitions_30d = graph.edges[e].transitions_365d
    /\ disk_graph.kind = "complete"
          => /\ \A n \in DOMAIN disk_graph.data.nodes :
                   disk_graph.data.nodes[n].visits_30d = disk_graph.data.nodes[n].visits_365d
             /\ \A e \in DOMAIN disk_graph.data.edges :
                   disk_graph.data.edges[e].transitions_30d
                      = disk_graph.data.edges[e].transitions_365d

\* a node visited three times and an edge traversed twice, with the counters
\* 2.8525 and 1.95 in both windows
C26_Witness ==
    /\ \E n \in Nodes :
          /\ graph.nodes[n].visits_30d = Touched(3)
          /\ graph.nodes[n].visits_365d = Touched(3)
    /\ \E e \in Edges :
          /\ graph.edges[e].transitions_30d = Touched(2)
          /\ graph.edges[e].transitions_365d = Touched(2)

\* 1 <= counter < 1 / (1 - decay_rate), in the fixed point of the counters
InBounds(counter) ==
    /\ Unit <= counter
    /\ counter * (DecayDen - DecayNum) < DecayDen * Unit

LastBatch == daily_data[Len(daily_data)]

\* C28: a visit leaves its node active and a transition leaves its edge
\* active, also when an earlier cycle had marked them inactive; and when
\* prune_graph ends, soft or hard, every node visited and every edge
\* traversed in the last batch of the cycle is in the graph and active,
\* whatever its counter.
C28_Reactivation ==
    [][/\ pc = "visits" => graph'.nodes[Row.place_id].active
       /\ pc = "transitions" => graph'.edges[<<PrevRow.place_id, Row.place_id>>].active
       /\ (pc \in {"prune", "remove"} /\ pc' = "persist")
             => /\ \A k \in 1..Len(LastBatch.rows) :
                      /\ LastBatch.rows[k].place_id \in Nodes'
                      /\ graph'.nodes[LastBatch.rows[k].place_id].active
                /\ \A k \in 2..Len(LastBatch.rows) :
                      LET e == <<LastBatch.rows[k - 1].place_id, LastBatch.rows[k].place_id>>
                      IN  e \in Edges' /\ graph'.edges[e].active]_vars

\* prune_graph has ended on a graph with a node and an edge that the graph on
\* disk holds as inactive and that the last batch touched: both are active,
\* with counters below visit_threshold
C28_Witness ==
    /\ pc = "persist"
    /\ disk_graph.kind = "complete"
    /\ \E n \in Nodes \cap DOMAIN disk_graph.data.nodes :
          /\ ~disk_graph.data.nodes[n].active
          /\ graph.nodes[n].active
          /\ graph.nodes[n].visits_30d < visit_threshold * Unit
          /\ \E k \in 1..Len(LastBatch.rows) : LastBatch.rows[k].place_id = n
    /\ \E e \in Edges \cap DOMAIN disk_graph.data.edges :
          /\ ~disk_graph.data.edges[e].active
          /\ graph.edges[e].active
          /\ graph.edges[e].transitions_30d < visit_threshold * Unit

\* the sum of the bucket counts of an edge record
BucketSum(data) == SumCounts(data.time_buckets, DOMAIN data.time_buckets)

\* the transitions over the edge e in the files dated on or before the day w
TransitionsUpTo(e, w) ==
    LET dates == {d \in DOMAIN files : d <= w}
        In(rows) == Cardinality({k \in 2..Len(rows) :
                        rows[k - 1].place_id = e[1] /\ rows[k].place_id = e[2]})
    IN  SumOver([d \in dates |-> In(files[d])], dates)

\* C29: while an edge stays in the graph no bucket key of it goes away and no
\* count of it decreases; an edge leaves the graph only in the removal step
\* of a hard prune, being inactive or at a node that is; an edge that enters
\* the graph, for the first time or again, has the one count of the
\* transition that created it; and the bucket counts of an edge add up to the
\* number of its transitions processed since it was created.
C29_BucketsMonotone ==
    [][/\ \A e \in Edges \cap Edges' :
             \A key \in DOMAIN graph.edges[e].time_buckets :
                /\ key \in DOMAIN graph'.edges[e].time_buckets
                /\ graph'.edges[e].time_buckets[key] >= graph.edges[e].time_buckets[key]
       /\ \A e \in Edges \ Edges' :
             /\ pc = "remove"
             /\ \/ ~graph.edges[e].active
                \/ ~graph.nodes[e[1]].active
                \/ ~graph.nodes[e[2]].active
       /\ \A e \in Edges' \ Edges :
             /\ pc = "transitions"
             /\ graph'.edges[e].time_buckets = (BucketKey(Row.start) :> 1)
       /\ \A e \in Edges' :
             graph'.edges[e].transitions_30d = Touched(BucketSum(graph'.edges[e]))]_vars

\* the cycles have processed two transitions over an edge that a hard prune
\* removed in between: its buckets hold the one count of the second
C29_Witness ==
    /\ pc = "exited"
    /\ out.msg = "Graph updated"
    /\ \E e \in Edges :
          /\ BucketSum(graph.edges[e]) = 1
          /\ TransitionsUpTo(e, DayOf(last_update)) = 2

\* the graphs that differ from G in nothing but the active flags
FlagVariants(G) ==
    {[G EXCEPT !.nodes = [n \in DOMAIN G.nodes |-> [G.nodes[n] EXCEPT !.active = f[n]]],
               !.edges = [e \in DOMAIN G.edges |-> [G.edges[e] EXCEPT !.active = g[e]]]] :
        f \in [DOMAIN G.nodes -> BOOLEAN], g \in [DOMAIN G.edges -> BOOLEAN]}

\* what the tool of the reply r returns on the graph H, called with the
\* arguments and at the time of r
Again(r, H) ==
    LET a == r.args
    IN  IF r.tool = "top_locations" THEN top_locations(H, a.now, a.days, a.n)
        ELSE IF r.tool = "next_location"
        THEN next_location(H, a.current_place, a.weekday, a.hour, a.top_k,
                           IF a.clock = None THEN FileDate(0) ELSE a.clock[1])
        ELSE IF r.tool = "top_locations_weekday"
        THEN top_locations_weekday(H, a.weekday, a.n)
        ELSE IF r.tool = "top_routes_weekday"
        THEN top_routes_weekday(H, a.weekday, a.n)
        ELSE read_location_graph(H, a.include_edges)

RankingTools ==
    {"top_locations", "next_location", "top_locations_weekday", "top_routes_weekday",
     "read_location_graph"}

\* C30: top_locations, next_location, top_locations_weekday,
\* top_routes_weekday and the listing return, on every graph that differs
\* from the loaded one in nothing but active flags, what they return on the
\* loaded one.
C30_ActiveBlind ==
    [][(reply = NoReply /\ reply' # NoReply /\ reply'.tool \in RankingTools
          /\ loaded'.kind = "graph")
          => \A H \in FlagVariants(loaded'.data) :
                /\ Again(reply', H).kind = reply'.kind
                /\ Again(reply', H).value = reply'.value]_vars

\* next_location has returned, with its score and bucket bonus, the
\* destination of an edge that a soft prune had marked inactive, out of a node
\* that is inactive too
C30_Witness ==
    /\ reply.tool = "next_location"
    /\ reply.kind = "ok"
    /\ ~loaded.data.nodes[reply.args.current_place].active
    /\ \E i \in 1..Len(reply.value) :
          LET data == loaded.data.edges[<<reply.args.current_place, reply.value[i][1]>>]
          IN  /\ ~data.active
              /\ reply.value[i][2] > data.score
              /\ data.score > 0

====
